---- MODULE Spec2Model ----
(***************************************************************************)
(* Verification model of the SOLID example scripts (src/SOLID/*.py).       *)
(*                                                                         *)
(* The five scripts are independent programs.  Each one is modelled as its *)
(* own specification over its own group of variables:                      *)
(*                                                                         *)
(*   SpecRepo      dip_example.py   DataRepository variants, DataService   *)
(*   SpecDispatch  dip_example.py / ocp_example.py   MessageSender and     *)
(*                 PaymentProcessor variants behind their coordinators     *)
(*   SpecRegistry  the capability registry of spec.md section 4.1 over the *)
(*                 class hierarchies of isp_example.py and lsp_example.py  *)
(*   SpecShapes    ocp_example.py   Shape variants, GoodAreaCalculator     *)
(*   SpecReport    srp_example.py   ReportService and UserService          *)
(*   SpecGrowth    the registry and srp's UserRepository, either one      *)
(*   SpecCoordinators  dip_example.py   NotificationService, DataService  *)
(*   SpecRouting   dip_example.py   NotificationService, any sender       *)
(*   SpecRectangles  lsp_example.py   Rectangle, Square, resize_rectangle *)
(*   SpecBirds     lsp_example.py   main()'s two loops over the birds     *)
(*   SpecCalculators  ocp_example.py   BadAreaCalculator and the good one *)
(*                                                                         *)
(* Python values are modelled as follows: a dict is a function whose       *)
(* DOMAIN is its key set, a str is a TLA+ string (f-strings are built with *)
(* \o), None is the record PyNone, an object is a record of its fields,    *)
(* a raised exception is an outcome naming the exception class.            *)
(***************************************************************************)
EXTENDS Integers, Sequences, FiniteSets, TLC

VARIABLES
    repos,          \* dip: heap of DataRepository instances
    dataServices,   \* dip: DataService objects, each holding .repository
    dret,           \* dip: what the last repository/service call returned
    script,         \* the script whose classes are in use (dip, ocp, ...)
    hashSeed,       \* ocp: the process's str hash seed (PYTHONHASHSEED)
    nsvcs,          \* dip: NotificationService objects (.message_sender)
    nlast,          \* dip: per NotificationService, its last call and result
    plast,          \* ocp: per PaymentProcessor, its last call and result
    declared,       \* registry: capability name -> its method signatures
    registered,     \* registry: the registered variants, by handle
    rlast,          \* registry: the last registry call and its outcome
    shapes,         \* ocp, lsp: the driver's Shape instances
    aret,           \* ocp, lsp: what the last calculator/shape call did
    fs,             \* srp: the file system, file name -> content
    users,          \* srp: UserRepository.users
    sret,           \* srp: the last ReportService/UserService call
    driver,         \* a main() in progress: its locals and its position
    log             \* the method calls that main() has made, in order

repoVars == <<repos, dataServices, dret>>

dispatchVars == <<hashSeed, nsvcs, nlast, plast>>

registryVars == <<declared, registered, rlast>>

shapeVars == <<shapes, aret>>

reportVars == <<fs, users, sret>>

driverVars == <<driver, log>>

vars == <<repos, dataServices, dret, script, hashSeed, nsvcs, nlast, plast,
          declared, registered, rlast, shapes, aret, fs, users, sret,
          driver, log>>

\* What an action of one script leaves alone: the other scripts' state.
notRepo == <<script, dispatchVars, registryVars, shapeVars, reportVars,
              driverVars>>

notDispatch == <<script, repoVars, registryVars, shapeVars, reportVars,
                  driverVars>>

notRegistry == <<script, repoVars, dispatchVars, shapeVars, reportVars,
                  driverVars>>

notShapes == <<script, repoVars, dispatchVars, registryVars, reportVars,
                driverVars>>

notReport == <<script, repoVars, dispatchVars, registryVars, shapeVars,
                driverVars>>

notDriver == <<script, repoVars, dispatchVars, registryVars, shapeVars,
               reportVars>>

(***************************************************************************)
(* Bounds of the model.                                                    *)
(***************************************************************************)
MaxRepos == 2
MaxServices == 2
MaxVariants == 2
MaxShapes == 2
MaxUsers == 2
MaxBirds == 4

(***************************************************************************)
(* Python helpers.                                                         *)
(***************************************************************************)
\* dict.get(key, default)
DictGet(d, key, default) == IF key \in DOMAIN d THEN d[key] ELSE default

\* d[key] = value
DictSet(d, key, value) == (key :> value) @@ d

\* del d[key]
DictDel(d, key) == [k \in (DOMAIN d) \ {key} |-> d[k]]

EmptyDict == <<>>

\* Python values whose type a claim speaks of carry it as a tag.
PyBool(b) == [t |-> "bool", v |-> b]

PyStr(str) == [t |-> "str", v |-> str]

PyNone == [t |-> "NoneType"]

PyDict(d) == [t |-> "dict", v |-> d]

\* The shape of a result: its type and, for a dict, its keys and the type of
\* the value under each key.
Shape(x) ==
    IF x.t = "dict"
    THEN [t |-> "dict", fields |-> [k \in DOMAIN x.v |-> x.v[k].t]]
    ELSE [t |-> x.t]

(***************************************************************************)
(* dip_example.py: the persistence example.                                *)
(***************************************************************************)
\* The records the driver hands to save/process_data: two records with the
\* same id and one with no 'id' field at all ("p2" is an id never saved).
DataValues ==
    { [id |-> "p1", name |-> "Laptop"],
      [id |-> "p1", name |-> "Phone"],
      [name |-> "NoId"] }

Ids == {"p1", "p2", "unknown"}

RepoKinds == {"Database", "File", "Cloud"}

\* The constructor argument (connection_string, base_path, cloud_provider).
CtorArg(kind) ==
    CASE kind = "Database" -> "jdbc:mysql"
      [] kind = "File"     -> "/data/files"
      [] kind = "Cloud"    -> "AWS S3"

\* DatabaseRepository.__init__ / FileRepository.__init__ /
\* CloudRepository.__init__: every instance gets a dict of its own.
NewRepository(kind, arg) == [kind |-> kind, arg |-> arg, store |-> EmptyDict]

\* f"{self.base_path}/{id}.json"
FileName(base_path, id) == base_path \o "/" \o id \o ".json"

\* data.get('id', 'unknown')
DataId(data) == DictGet(data, "id", "unknown")

\* Mutant of DatabaseRepository.save: data_store is a class attribute, so the
\* write lands in the dict every DatabaseRepository instance shares.
DatabaseRepository_save_shared(heap, r, data) ==
    [i \in DOMAIN heap |->
        IF heap[i].kind = "Database"
        THEN [heap[i] EXCEPT !.store = DictSet(@, DataId(data), data)]
        ELSE heap[i]]

\* DatabaseRepository.save: self.data_store[data_id] = data; return True
DatabaseRepository_save(heap, r, data) ==
    [heap EXCEPT ![r].store = DictSet(@, DataId(data), data)]

\* FileRepository.save: self.files[filename] = data; return True
FileRepository_save(heap, r, data) ==
    [heap EXCEPT ![r].store = DictSet(@, FileName(heap[r].arg, DataId(data)), data)]

\* CloudRepository.save: self.cloud_storage[data_id] = data; return True
CloudRepository_save(heap, r, data) ==
    [heap EXCEPT ![r].store = DictSet(@, DataId(data), data)]

\* DataRepository.save, dispatched on the instance's class.
Repository_save(heap, r, data) ==
    CASE heap[r].kind = "Database" -> DatabaseRepository_save(heap, r, data)
      [] heap[r].kind = "File"     -> FileRepository_save(heap, r, data)
      [] heap[r].kind = "Cloud"    -> CloudRepository_save(heap, r, data)

\* DatabaseRepository.load
DatabaseRepository_load(self, id) ==
    DictGet(self.store, id, [id |-> id, data |-> "Data from database"])

\* Mutant of FileRepository.load: the file name is built without the
\* ".json" suffix save uses, so the file just written is not found.
FileRepository_load_stale(self, id) ==
    DictGet(self.store, self.arg \o "/" \o id, [id |-> id, data |-> "Data from file"])

\* FileRepository.load
FileRepository_load(self, id) ==
    DictGet(self.store, FileName(self.arg, id), [id |-> id, data |-> "Data from file"])

\* CloudRepository.load
CloudRepository_load(self, id) ==
    DictGet(self.store, id, [id |-> id, data |-> "Data from cloud"])

\* DataRepository.load, dispatched on the instance's class.
Repository_load(self, id) ==
    CASE self.kind = "Database" -> DatabaseRepository_load(self, id)
      [] self.kind = "File"     -> FileRepository_load(self, id)
      [] self.kind = "Cloud"    -> CloudRepository_load(self, id)

\* DatabaseRepository.delete: if id in self.data_store: del ...; return True
DatabaseRepository_delete(heap, r, id) ==
    [heap EXCEPT ![r].store = IF id \in DOMAIN @ THEN DictDel(@, id) ELSE @]

\* FileRepository.delete
FileRepository_delete(heap, r, id) ==
    [heap EXCEPT ![r].store =
        IF FileName(heap[r].arg, id) \in DOMAIN @
        THEN DictDel(@, FileName(heap[r].arg, id)) ELSE @]

\* CloudRepository.delete
CloudRepository_delete(heap, r, id) ==
    [heap EXCEPT ![r].store = IF id \in DOMAIN @ THEN DictDel(@, id) ELSE @]

\* DataRepository.delete, dispatched on the instance's class.
Repository_delete(heap, r, id) ==
    CASE heap[r].kind = "Database" -> DatabaseRepository_delete(heap, r, id)
      [] heap[r].kind = "File"     -> FileRepository_delete(heap, r, id)
      [] heap[r].kind = "Cloud"    -> CloudRepository_delete(heap, r, id)

\* get_repository_type
Repository_get_repository_type(self) ==
    CASE self.kind = "Database" -> "Database"
      [] self.kind = "File"     -> "File System"
      [] self.kind = "Cloud"    -> "Cloud (" \o self.arg \o ")"

NoCall == [op |-> "none"]

\* The registry before anything is declared.
IdleRegistry ==
    /\ declared = EmptyDict
    /\ registered = <<>>
    /\ rlast = NoCall

\* ocp's shape example before any shape is built.
IdleShapes ==
    /\ shapes = <<>>
    /\ aret = NoCall

\* srp before any call: no file written, no user saved.
IdleReport ==
    /\ fs = EmptyDict
    /\ users = <<>>
    /\ sret = NoCall

\* No main() has started.
IdleDriver ==
    /\ driver = NoCall
    /\ log = <<>>

\* The state of a script that is not running.
IdleRepo ==
    /\ repos = <<>>
    /\ dataServices = <<>>
    /\ dret = NoCall

(***************************************************************************)
(* dip_example.py: MessageSender variants and NotificationService.         *)
(* ocp_example.py: PaymentProcessor variants and PaymentService.           *)
(***************************************************************************)
SenderClasses == {"EmailService", "SMSService", "WhatsAppService",
                  "PushNotificationService"}

\* The constructor arguments the driver passes (smtp_server, provider,
\* platform); WhatsAppService takes none.
SenderArgs(cls) ==
    CASE cls = "EmailService"            -> {"smtp.gmail.com", "localhost"}
      [] cls = "SMSService"              -> {"Telcel", "Twilio"}
      [] cls = "WhatsAppService"         -> {""}
      [] cls = "PushNotificationService" -> {"iOS"}

Messages == {"hi", ""}

Recipients == {"bob", "+52123456789"}

\* EmailService.send_message: two prints, return True
EmailService_send_message(self, message, recipient) ==
    [printed |-> << "[Email via " \o self.arg \o "] To: " \o recipient,
                    "Message: " \o message >>,
     ret |-> PyBool(TRUE)]

\* Mutant of SMSService.send_message: an empty message is refused.
SMSService_send_message_refusing(self, message, recipient) ==
    [printed |-> << "[SMS via " \o self.arg \o "] To: " \o recipient,
                    "Message: " \o message >>,
     ret |-> PyBool(message # "")]

\* SMSService.send_message
SMSService_send_message(self, message, recipient) ==
    [printed |-> << "[SMS via " \o self.arg \o "] To: " \o recipient,
                    "Message: " \o message >>,
     ret |-> PyBool(TRUE)]

\* Mutant of WhatsAppService.send_message: the return statement is missing,
\* so the call returns None.
WhatsAppService_send_message_noreturn(self, message, recipient) ==
    [printed |-> << "[WhatsApp] To: " \o recipient,
                    "Message: " \o message >>,
     ret |-> PyNone]

\* WhatsAppService.send_message
WhatsAppService_send_message(self, message, recipient) ==
    [printed |-> << "[WhatsApp] To: " \o recipient,
                    "Message: " \o message >>,
     ret |-> PyBool(TRUE)]

\* PushNotificationService.send_message
PushNotificationService_send_message(self, message, recipient) ==
    [printed |-> << "[Push " \o self.arg \o "] To device: " \o recipient,
                    "Notification: " \o message >>,
     ret |-> PyBool(TRUE)]

\* A MessageSender subclass written by the caller of NotificationService
\* (the abstract class is there to be implemented): its send_message
\* returns the bool it was built to return, its get_sender_type a name.
CallerSender_send_message(self, message, recipient) ==
    [printed |-> <<>>, ret |-> PyBool(self.arg = "True")]

CallerSender_get_sender_type(self) == PyStr("Caller")

\* MessageSender.send_message, dispatched on the instance's class.
MessageSender_send_message(self, message, recipient) ==
    CASE self.cls = "EmailService" ->
            EmailService_send_message(self, message, recipient)
      [] self.cls = "SMSService" ->
            SMSService_send_message(self, message, recipient)
      [] self.cls = "WhatsAppService" ->
            WhatsAppService_send_message(self, message, recipient)
      [] self.cls = "PushNotificationService" ->
            PushNotificationService_send_message(self, message, recipient)
      [] self.cls = "CallerSender" ->
            CallerSender_send_message(self, message, recipient)

\* MessageSender.get_sender_type
MessageSender_get_sender_type(self) ==
    CASE self.cls = "EmailService"            -> PyStr("Email")
      [] self.cls = "SMSService"              -> PyStr("SMS")
      [] self.cls = "WhatsAppService"         -> PyStr("WhatsApp")
      [] self.cls = "PushNotificationService" -> PyStr("Push Notification")
      [] self.cls = "CallerSender"            -> CallerSender_get_sender_type(self)

NotCalled == [called |-> FALSE]

\* NotificationService(message_sender), as the driver and ServiceFactory
\* build it: the sender is constructed and injected.
NotificationService_init(cls, arg) ==
    /\ script = "dip"
    /\ Len(nsvcs) < MaxServices
    /\ nsvcs' = Append(nsvcs, [message_sender |-> [cls |-> cls, arg |-> arg]])
    /\ nlast' = Append(nlast, NotCalled)
    /\ UNCHANGED <<hashSeed, plast, notDispatch>>

\* Mutant of NotificationService.send_notification: the result of
\* send_message is reported but True is returned whatever it was.
send_notification_optimistic(i, message, recipient) ==
    LET sender  == nsvcs[i].message_sender
        type    == MessageSender_get_sender_type(sender)
        sent    == MessageSender_send_message(sender, message, recipient)
    IN  /\ script = "dip"
        /\ nlast' = [nlast EXCEPT ![i] =
              [called |-> TRUE, message |-> message, recipient |-> recipient,
               calls |-> << [on |-> sender, method |-> "get_sender_type",
                             args |-> <<>>, ret |-> type],
                            [on |-> sender, method |-> "send_message",
                             args |-> <<message, recipient>>, ret |-> sent.ret] >>,
               printed |-> << "Preparando notificacion via " \o type.v >>
                           \o sent.printed,
               value |-> PyBool(TRUE)]]
        /\ UNCHANGED <<hashSeed, nsvcs, plast, notDispatch>>

\* NotificationService.send_notification(message, recipient)
send_notification(i, message, recipient) ==
    LET sender  == nsvcs[i].message_sender
        type    == MessageSender_get_sender_type(sender)
        sent    == MessageSender_send_message(sender, message, recipient)
        success == sent.ret
    IN  /\ script = "dip"
        /\ nlast' = [nlast EXCEPT ![i] =
              [called |-> TRUE, message |-> message, recipient |-> recipient,
               calls |-> << [on |-> sender, method |-> "get_sender_type",
                             args |-> <<>>, ret |-> type],
                            [on |-> sender, method |-> "send_message",
                             args |-> <<message, recipient>>, ret |-> sent.ret] >>,
               printed |-> << "Preparando notificacion via " \o type.v >>
                           \o sent.printed
                           \o << IF success.t = "bool" /\ success.v
                                 THEN "Notificacion enviada exitosamente"
                                 ELSE "Error al enviar notificacion" >>,
               value |-> success]]
        /\ UNCHANGED <<hashSeed, nsvcs, plast, notDispatch>>

ProcessorClasses == {"CreditCardProcessor", "PayPalProcessor",
                     "BitcoinProcessor", "BankTransferProcessor"}

\* payment_details as the driver builds them, and the empty mapping.
PaymentDetails ==
    { EmptyDict,
      [card_number |-> "1234567890123456"],
      [email |-> "usuario@ejemplo.com"],
      [wallet_address |-> "1A1zP1eP5QGefi2DMPTfTL5SLmv7DivfNa"],
      [account_number |-> "123456789012"] }

Amounts == {250}

\* The str hash seeds a process may start with.
HashSeeds == {0, 7919}

\* hash(str): CPython's str hash is a function of the string and of the
\* process's seed and may be negative; this stands for it.
PyHash(str, seed) == (Len(str) * 7919 + seed * 104729) - 500000

HashModulus == 10000

\* f"{prefix}_{hash(key) % 10000}"
TransactionId(prefix, key, seed) ==
    prefix \o "_" \o ToString(PyHash(key, seed) % HashModulus)

\* CreditCardProcessor.process_payment
CreditCardProcessor_process_payment(amount, payment_details, seed) ==
    LET card_number == DictGet(payment_details, "card_number", "XXXX")
    IN  PyDict([status |-> PyStr("success"),
                transaction_id |-> PyStr(TransactionId("CC", card_number, seed))])

\* Mutant of PayPalProcessor.process_payment: the email is read with
\* payment_details['email'], which raises KeyError when the key is absent.
PayPalProcessor_process_payment_indexing(amount, payment_details, seed) ==
    IF "email" \notin DOMAIN payment_details
    THEN [t |-> "KeyError", v |-> "email"]
    ELSE PyDict([status |-> PyStr("success"),
                 transaction_id |->
                     PyStr(TransactionId("PP", payment_details["email"], seed))])

\* PayPalProcessor.process_payment
PayPalProcessor_process_payment(amount, payment_details, seed) ==
    LET email == DictGet(payment_details, "email", "usuario@ejemplo.com")
    IN  PyDict([status |-> PyStr("success"),
                transaction_id |-> PyStr(TransactionId("PP", email, seed))])

\* BitcoinProcessor.process_payment
BitcoinProcessor_process_payment(amount, payment_details, seed) ==
    LET wallet == DictGet(payment_details, "wallet_address", "XXXX")
    IN  PyDict([status |-> PyStr("success"),
                transaction_id |-> PyStr(TransactionId("BTC", wallet, seed))])

\* BankTransferProcessor.process_payment
BankTransferProcessor_process_payment(amount, payment_details, seed) ==
    LET account == DictGet(payment_details, "account_number", "XXXX")
    IN  PyDict([status |-> PyStr("success"),
                transaction_id |-> PyStr(TransactionId("BT", account, seed))])

\* PaymentProcessor.process_payment, dispatched on the instance's class.
PaymentProcessor_process_payment(cls, amount, payment_details, seed) ==
    CASE cls = "CreditCardProcessor" ->
            CreditCardProcessor_process_payment(amount, payment_details, seed)
      [] cls = "PayPalProcessor" ->
            PayPalProcessor_process_payment(amount, payment_details, seed)
      [] cls = "BitcoinProcessor" ->
            BitcoinProcessor_process_payment(amount, payment_details, seed)
      [] cls = "BankTransferProcessor" ->
            BankTransferProcessor_process_payment(amount, payment_details, seed)

\* PaymentProcessor.get_processor_name
PaymentProcessor_get_processor_name(cls) ==
    CASE cls = "CreditCardProcessor"   -> PyStr("Tarjeta de Credito")
      [] cls = "PayPalProcessor"       -> PyStr("PayPal")
      [] cls = "BitcoinProcessor"      -> PyStr("Bitcoin")
      [] cls = "BankTransferProcessor" -> PyStr("Transferencia Bancaria")

\* PaymentService.process_order_payment(amount, processor, payment_details)
process_order_payment(amount, cls, payment_details) ==
    LET name   == PaymentProcessor_get_processor_name(cls)
        result == PaymentProcessor_process_payment(cls, amount, payment_details,
                                                   hashSeed)
    IN  /\ script = "ocp"
        /\ plast' = [plast EXCEPT ![cls] =
              [called |-> TRUE, amount |-> amount, details |-> payment_details,
               calls |-> << [on |-> cls, method |-> "get_processor_name",
                             args |-> <<>>, ret |-> name],
                            [on |-> cls, method |-> "process_payment",
                             args |-> <<amount, payment_details>>,
                             ret |-> result] >>,
               value |-> result]]
        /\ UNCHANGED <<hashSeed, nsvcs, nlast, notDispatch>>

IdleDispatch ==
    /\ hashSeed = 0
    /\ nsvcs = <<>>
    /\ nlast = <<>>
    /\ plast = [cls \in ProcessorClasses |-> NotCalled]

InitDispatch ==
    /\ script \in {"dip", "ocp"}
    /\ hashSeed \in (IF script = "ocp" THEN HashSeeds ELSE {0})
    /\ nsvcs = <<>>
    /\ nlast = <<>>
    /\ plast = [cls \in ProcessorClasses |-> NotCalled]
    /\ IdleRepo
    /\ IdleDriver
    /\ IdleRegistry
    /\ IdleShapes
    /\ IdleReport

NextDispatch ==
    \/ \E cls \in SenderClasses : \E arg \in SenderArgs(cls) :
          NotificationService_init(cls, arg)
    \/ \E i \in 1..Len(nsvcs), message \in Messages, recipient \in Recipients :
          send_notification(i, message, recipient)
    \/ \E cls \in ProcessorClasses, amount \in Amounts,
          payment_details \in PaymentDetails :
          process_order_payment(amount, cls, payment_details)

SpecDispatch == InitDispatch /\ [][NextDispatch]_vars

(***************************************************************************)
(* Claims about the variants behind NotificationService and PaymentService *)
(* (checked under SpecDispatch).                                           *)
(***************************************************************************)
BoolShape == [t |-> "bool"]

PaymentResultShape ==
    [t |-> "dict", fields |-> [status |-> "str", transaction_id |-> "str"]]

C9_SendReturnsTrue ==
    \A i \in 1..Len(nsvcs) :
        nlast[i].called =>
            /\ nlast[i].calls[2].method = "send_message"
            /\ nlast[i].calls[2].ret = PyBool(TRUE)
            /\ nlast[i].value = PyBool(TRUE)

\* An SMSService built with the second provider was sent the empty message.
C9_Witness ==
    \E i \in 1..Len(nsvcs) :
        /\ nsvcs[i].message_sender = [cls |-> "SMSService", arg |-> "Twilio"]
        /\ nlast[i].called
        /\ nlast[i].message = ""
        /\ nlast[i].value = PyBool(TRUE)


\* ServiceFactory.create_database_data_service / create_file_data_service /
\* create_cloud_data_service: a new repository and a DataService holding it.
create_data_service(kind) ==
    /\ Len(repos) < MaxRepos
    /\ repos' = Append(repos, NewRepository(kind, CtorArg(kind)))
    /\ dataServices' = Append(dataServices, [repository |-> Len(repos) + 1])
    /\ dret' = [op |-> "create", repo |-> Len(repos) + 1]
    /\ UNCHANGED notRepo

\* Mutant of DataService.process_data: data['id'] is read before the save,
\* so a record without 'id' raises KeyError with nothing stored.
process_data_checking(s, data) ==
    LET r     == dataServices[s].repository
        saved == Repository_save(repos, r, data)
    IN  /\ repos' = IF "id" \in DOMAIN data THEN saved ELSE repos
        /\ dret' =
             IF "id" \in DOMAIN data
             THEN [op |-> "process_data", repo |-> r, data |-> data,
                   outcome |-> "return", value |-> TRUE,
                   loaded |-> Repository_load(saved[r], data["id"])]
             ELSE [op |-> "process_data", repo |-> r, data |-> data,
                   outcome |-> "KeyError"]
        /\ UNCHANGED <<dataServices, notRepo>>

\* DataService.process_data(data): save, then load data['id'] to verify.
\* A record without 'id' is saved under 'unknown' and data['id'] then raises
\* KeyError out of process_data.
process_data(s, data) ==
    LET r     == dataServices[s].repository
        saved == Repository_save(repos, r, data)
    IN  /\ repos' = saved
        /\ dret' =
             IF "id" \in DOMAIN data
             THEN [op |-> "process_data", repo |-> r, data |-> data,
                   outcome |-> "return", value |-> TRUE,
                   loaded |-> Repository_load(saved[r], data["id"])]
             ELSE [op |-> "process_data", repo |-> r, data |-> data,
                   outcome |-> "KeyError"]
        /\ UNCHANGED <<dataServices, notRepo>>

\* Mutant of DataService.cleanup_data: the service remembers, in a field of
\* its own, the id it cleaned last.
cleanup_data_remembering(s, id) ==
    LET r == dataServices[s].repository
    IN  /\ repos' = Repository_delete(repos, r, id)
        /\ dataServices' = [dataServices EXCEPT
                               ![s] = [repository |-> r, last_id |-> id]]
        /\ dret' = [op |-> "cleanup_data", repo |-> r, id |-> id,
                    outcome |-> "return", value |-> TRUE]
        /\ UNCHANGED notRepo

\* DataService.cleanup_data(id): return self.repository.delete(id)
cleanup_data(s, id) ==
    LET r == dataServices[s].repository
    IN  /\ repos' = Repository_delete(repos, r, id)
        /\ dret' = [op |-> "cleanup_data", repo |-> r, id |-> id,
                    outcome |-> "return", value |-> TRUE]
        /\ UNCHANGED <<dataServices, notRepo>>

\* repository.load(id) called by the driver: reads, changes nothing.
load(r, id) ==
    /\ dret' = [op |-> "load", repo |-> r, id |-> id,
                outcome |-> "return", value |-> Repository_load(repos[r], id)]
    /\ UNCHANGED <<repos, dataServices, notRepo>>

\* repository.save(data) called by the driver.
save(r, data) ==
    /\ repos' = Repository_save(repos, r, data)
    /\ dret' = [op |-> "save", repo |-> r, data |-> data,
                outcome |-> "return", value |-> TRUE]
    /\ UNCHANGED <<dataServices, notRepo>>

InitRepo ==
    /\ script = "dip"
    /\ IdleRepo
    /\ IdleDriver
    /\ IdleDispatch
    /\ IdleRegistry
    /\ IdleShapes
    /\ IdleReport

NextRepo ==
    \/ \E kind \in RepoKinds : create_data_service(kind)
    \/ \E s \in 1..Len(dataServices), data \in DataValues : process_data(s, data)
    \/ \E s \in 1..Len(dataServices), id \in Ids : cleanup_data(s, id)
    \/ \E r \in 1..Len(repos), id \in Ids : load(r, id)
    \/ \E r \in 1..Len(repos), data \in DataValues : save(r, data)

SpecRepo == InitRepo /\ [][NextRepo]_vars

(***************************************************************************)
(* Claims about the persistence example (checked under SpecRepo).          *)
(***************************************************************************)
\* C8: repository instances own independent state.  Whatever a step does
\* through one instance A (save, delete, process_data, cleanup_data, load, or
\* the construction of A), every other instance B is left as it was and
\* every load through B returns what it returned before the step; a newly
\* constructed instance starts with an empty store of its own.
C8_IndependentState ==
    [][ /\ \A b \in 1..Len(repos) :
             b # dret'.repo =>
                /\ repos'[b] = repos[b]
                /\ \A id \in Ids :
                      Repository_load(repos'[b], id) = Repository_load(repos[b], id)
        /\ dret'.op = "create" => repos'[dret'.repo].store = EmptyDict
      ]_vars

\* Two instances of the same class; a record was just saved through the
\* first and the second still is empty.
C8_Witness ==
    /\ Len(repos) >= 2
    /\ repos[1].kind = repos[2].kind
    /\ dret.op = "save" /\ dret.repo = 1
    /\ repos[1].store # EmptyDict
    /\ repos[2].store = EmptyDict
    /\ Repository_load(repos[2], "p1") # Repository_load(repos[1], "p1")

\* C10: the synchronous contract.  When process_data(data) has returned True,
\* the load of data's id it issued right after the save returned exactly the
\* record saved, and a load issued now returns it too.
C10_SaveThenLoad ==
    (dret.op = "process_data" /\ dret.outcome = "return" /\ dret.value = TRUE)
        => /\ dret.loaded = dret.data
           /\ Repository_load(repos[dret.repo], dret.data["id"]) = dret.data

\* process_data returned on a FileRepository whose file was overwritten:
\* the record loaded is the new one.
C10_Witness ==
    /\ dret.op = "process_data" /\ dret.outcome = "return"
    /\ repos[dret.repo].kind = "File"
    /\ dret.data = [id |-> "p1", name |-> "Phone"]
    /\ dret.loaded = [id |-> "p1", name |-> "Phone"]

(***************************************************************************)
(* isp_example.py and lsp_example.py: the capability interfaces (ABCs) and *)
(* the classes that implement them.                                        *)
(***************************************************************************)
\* The abstract classes used as capabilities, per script.
CapabilityNames(scr) ==
    CASE scr = "isp" -> {"BadMultiFunctionDevice", "Printer", "Scanner"}
      [] scr = "lsp" -> {"BadBird", "Flyable"}
      [] OTHER       -> {}

\* The @abstractmethod names of each abstract class.
AbstractMethods(name) ==
    CASE name = "BadMultiFunctionDevice" ->
            {"print_document", "print_color", "scan_document", "scan_to_email",
             "send_fax", "receive_fax", "copy_document", "copy_color"}
      [] name = "Printer" -> {"print_document"}
      [] name = "Scanner" -> {"scan_document", "scan_to_email"}
      [] name = "BadBird" -> {"fly"}
      [] name = "Flyable" -> {"fly", "get_flight_speed"}

\* The concrete classes the drivers instantiate, per script.
VariantClasses(scr) ==
    CASE scr = "isp" -> {"BadSimplePrinter", "SimplePrinter", "DocumentScanner",
                         "MultiFunctionPrinter"}
      [] scr = "lsp" -> {"BadEagle", "BadPenguin", "Eagle", "Penguin"}
      [] OTHER       -> {}

\* The methods each class has, defined or inherited with a body.
ClassMethods(cls) ==
    CASE cls = "BadSimplePrinter" ->
            {"print_document", "print_color", "scan_document", "scan_to_email",
             "send_fax", "receive_fax", "copy_document", "copy_color"}
      [] cls = "SimplePrinter" -> {"print_document"}
      [] cls = "DocumentScanner" -> {"scan_document", "scan_to_email"}
      [] cls = "MultiFunctionPrinter" ->
            {"print_document", "print_color", "scan_document", "scan_to_email",
             "copy_document", "copy_color"}
      [] cls = "BadEagle" -> {"fly", "eat"}
      [] cls = "BadPenguin" -> {"fly", "eat"}
      [] cls = "Eagle" -> {"make_sound", "fly", "get_flight_speed", "eat", "sleep"}
      [] cls = "Penguin" -> {"make_sound", "swim", "get_swim_speed", "run",
                             "get_running_speed", "eat", "sleep"}
      [] cls = "Duck" -> {"make_sound", "fly", "get_flight_speed", "swim",
                          "get_swim_speed", "eat", "sleep"}
      [] cls = "Ostrich" -> {"make_sound", "run", "get_running_speed", "eat",
                             "sleep"}

\* The constructor argument the driver gives (model), or the name the class's
\* __init__ passes to its base class.
InstanceArg(cls) ==
    CASE cls = "BadSimplePrinter"     -> ""
      [] cls = "SimplePrinter"        -> "HP LaserJet Basic"
      [] cls = "DocumentScanner"      -> "Epson Scanner Pro"
      [] cls = "MultiFunctionPrinter" -> "Brother MFC-9000"
      [] cls = "BadEagle"             -> "Aguila"
      [] cls = "BadPenguin"           -> "Pinguino"
      [] cls = "Eagle"                -> "Aguila"
      [] cls = "Penguin"              -> "Pinguino"
      [] cls = "Duck"                 -> "Pato"
      [] cls = "Ostrich"              -> "Avestruz"

\* The arguments a caller passes to each method (document, email, number).
Document == "Documento simple"

Return(value, printed) ==
    [outcome |-> "return", value |-> value, printed |-> printed]

Raise(exc, msg) == [outcome |-> "raise", exc |-> exc, msg |-> msg]

\* BadSimplePrinter: print_document prints, every other method raises
\* NotImplementedError.
BadSimplePrinter_call(self, method) ==
    CASE method = "print_document" ->
            Return(PyNone, << "Imprimiendo: " \o Document >>)
      [] method = "print_color" ->
            Raise("NotImplementedError", "Esta impresora no soporta color")
      [] method \in {"scan_document", "scan_to_email"} ->
            Raise("NotImplementedError", "Esta impresora no puede escanear")
      [] method = "send_fax" ->
            Raise("NotImplementedError", "Esta impresora no puede enviar fax")
      [] method = "receive_fax" ->
            Raise("NotImplementedError", "Esta impresora no puede recibir fax")
      [] method \in {"copy_document", "copy_color"} ->
            Raise("NotImplementedError", "Esta impresora no puede copiar")

\* SimplePrinter.print_document
SimplePrinter_call(self, method) ==
    CASE method = "print_document" ->
            Return(PyNone, << "[" \o self.arg \o "] Imprimiendo: " \o Document >>)

\* DocumentScanner.scan_document / scan_to_email
DocumentScanner_call(self, method) ==
    CASE method = "scan_document" ->
            Return(PyStr("Documento escaneado por " \o self.arg),
                   << "[" \o self.arg \o "] Escaneando documento..." >>)
      [] method = "scan_to_email" ->
            Return(PyStr("Documento escaneado por " \o self.arg),
                   << "[" \o self.arg \o "] Escaneando documento...",
                      "[" \o self.arg \o "] Enviando escaneo a: a@b.com" >>)

\* MultiFunctionPrinter
MultiFunctionPrinter_call(self, method) ==
    CASE method = "print_document" ->
            Return(PyNone, << "[" \o self.arg \o "] Imprimiendo: " \o Document >>)
      [] method = "print_color" ->
            Return(PyNone,
                   << "[" \o self.arg \o "] Imprimiendo a color: " \o Document >>)
      [] method = "scan_document" ->
            Return(PyStr("Documento escaneado por " \o self.arg),
                   << "[" \o self.arg \o "] Escaneando..." >>)
      [] method = "scan_to_email" ->
            Return(PyStr("Documento escaneado por " \o self.arg),
                   << "[" \o self.arg \o "] Escaneando...",
                      "[" \o self.arg \o "] Enviando escaneo a: a@b.com" >>)
      [] method = "copy_document" ->
            Return(PyNone, << "[" \o self.arg \o "] Copiando: " \o Document >>)
      [] method = "copy_color" ->
            Return(PyNone,
                   << "[" \o self.arg \o "] Copiando a color: " \o Document >>)

\* BadEagle.fly, BadBird.eat
BadEagle_call(self, method) ==
    CASE method = "fly" ->
            Return(PyNone, << self.arg \o " vuela majestuosamente" >>)
      [] method = "eat" ->
            Return(PyNone, << self.arg \o " esta comiendo" >>)

\* BadPenguin.fly raises NotImplementedError; BadBird.eat
BadPenguin_call(self, method) ==
    CASE method = "fly" ->
            Raise("NotImplementedError", "Los pinguinos no pueden volar!")
      [] method = "eat" ->
            Return(PyNone, << self.arg \o " esta comiendo" >>)

\* Eagle
Eagle_call(self, method) ==
    CASE method = "make_sound" ->
            Return(PyNone, << self.arg \o " hace: Grito agudo!" >>)
      [] method = "fly" ->
            Return(PyNone, << self.arg \o " vuela alto en el cielo" >>)
      [] method = "get_flight_speed" -> Return([t |-> "int", v |-> 80], <<>>)
      [] method = "eat" ->
            Return(PyNone, << self.arg \o " esta comiendo" >>)
      [] method = "sleep" ->
            Return(PyNone, << self.arg \o " esta durmiendo" >>)

\* Penguin
Penguin_call(self, method) ==
    CASE method = "make_sound" ->
            Return(PyNone, << self.arg \o " hace: Graznido!" >>)
      [] method = "swim" ->
            Return(PyNone, << self.arg \o " nada graciosamente bajo el agua" >>)
      [] method = "get_swim_speed" -> Return([t |-> "int", v |-> 35], <<>>)
      [] method = "run" ->
            Return(PyNone, << self.arg \o " corre torpemente en tierra" >>)
      [] method = "get_running_speed" -> Return([t |-> "int", v |-> 5], <<>>)
      [] method = "eat" ->
            Return(PyNone, << self.arg \o " esta comiendo" >>)
      [] method = "sleep" ->
            Return(PyNone, << self.arg \o " esta durmiendo" >>)

\* Duck
Duck_call(self, method) ==
    CASE method = "make_sound" ->
            Return(PyNone, << self.arg \o " hace: Cuac cuac!" >>)
      [] method = "fly" ->
            Return(PyNone, << self.arg \o " vuela sobre el lago" >>)
      [] method = "get_flight_speed" -> Return([t |-> "int", v |-> 65], <<>>)
      [] method = "swim" ->
            Return(PyNone, << self.arg \o " nada en el estanque" >>)
      [] method = "get_swim_speed" -> Return([t |-> "int", v |-> 8], <<>>)
      [] method = "eat" ->
            Return(PyNone, << self.arg \o " esta comiendo" >>)
      [] method = "sleep" ->
            Return(PyNone, << self.arg \o " esta durmiendo" >>)

\* Ostrich
Ostrich_call(self, method) ==
    CASE method = "make_sound" ->
            Return(PyNone, << self.arg \o " hace: Rugido grave!" >>)
      [] method = "run" ->
            Return(PyNone, << self.arg \o " corre muy rapido por la sabana" >>)
      [] method = "get_running_speed" -> Return([t |-> "int", v |-> 70], <<>>)
      [] method = "eat" ->
            Return(PyNone, << self.arg \o " esta comiendo" >>)
      [] method = "sleep" ->
            Return(PyNone, << self.arg \o " esta durmiendo" >>)

\* self.method(...): the body the instance's class gives the method.
CallMethod(self, method) ==
    CASE self.cls = "BadSimplePrinter"     -> BadSimplePrinter_call(self, method)
      [] self.cls = "SimplePrinter"        -> SimplePrinter_call(self, method)
      [] self.cls = "DocumentScanner"      -> DocumentScanner_call(self, method)
      [] self.cls = "MultiFunctionPrinter" -> MultiFunctionPrinter_call(self, method)
      [] self.cls = "BadEagle"             -> BadEagle_call(self, method)
      [] self.cls = "BadPenguin"           -> BadPenguin_call(self, method)
      [] self.cls = "Eagle"                -> Eagle_call(self, method)
      [] self.cls = "Penguin"              -> Penguin_call(self, method)
      [] self.cls = "Duck"                 -> Duck_call(self, method)
      [] self.cls = "Ostrich"              -> Ostrich_call(self, method)

(***************************************************************************)
(* The capability registry of spec.md section 4.1: declare_capability,     *)
(* register_variant, invoke.  The scripts hold no such registry; these     *)
(* three operations are modelled from the specification's text and run the *)
(* scripts' classes as their variants.                                     *)
(***************************************************************************)
\* The method names a caller may ask invoke for.
InvokeMethods(scr) ==
    CASE scr = "isp" -> {"print_document", "print_color", "scan_document"}
      [] scr = "lsp" -> {"fly", "get_flight_speed", "eat"}
      [] OTHER       -> {}

\* The signature lists a caller may declare a name with: the abstract
\* class's own methods, or those and one more.
SignatureChoices(scr, name) ==
    { AbstractMethods(name),
      AbstractMethods(name) \cup
          {IF scr = "isp" THEN "print_color" ELSE "get_flight_speed"} }

\* The methods of the claimed capabilities that the class does not expose.
MissingMethods(cls, caps, decl) ==
    UNION { decl[c] \ ClassMethods(cls) : c \in caps }

\* Mutant of declare_capability: only a redeclaration with the same
\* signatures is refused; one with other signatures replaces the capability.
declare_capability_overwrite(name, sigs) ==
    /\ IF name \in DOMAIN declared /\ declared[name] = sigs
       THEN /\ rlast' = [op |-> "declare_capability", name |-> name,
                         sigs |-> sigs, outcome |-> "DuplicateCapabilityError"]
            /\ UNCHANGED declared
       ELSE /\ declared' = DictSet(declared, name, sigs)
            /\ rlast' = [op |-> "declare_capability", name |-> name,
                         sigs |-> sigs, outcome |-> "return"]
    /\ UNCHANGED <<registered, notRegistry>>

\* declare_capability(name, method_signatures) -> CapabilityHandle
\* Fails with DuplicateCapabilityError if name is already declared.
declare_capability(name, sigs) ==
    /\ IF name \in DOMAIN declared
       THEN /\ rlast' = [op |-> "declare_capability", name |-> name,
                         sigs |-> sigs, outcome |-> "DuplicateCapabilityError"]
            /\ UNCHANGED declared
       ELSE /\ declared' = DictSet(declared, name, sigs)
            /\ rlast' = [op |-> "declare_capability", name |-> name,
                         sigs |-> sigs, outcome |-> "return"]
    /\ UNCHANGED <<registered, notRegistry>>

\* Mutant of register_variant: a variant is accepted as soon as it fulfils
\* one of the capabilities it claims.
register_variant_lenient(cls, caps) ==
    /\ Len(registered) < MaxVariants
    /\ IF \A c \in caps : MissingMethods(cls, {c}, declared) # {}
       THEN /\ rlast' = [op |-> "register_variant", cls |-> cls, caps |-> caps,
                         outcome |-> "IncompleteImplementationError"]
            /\ UNCHANGED registered
       ELSE /\ registered' = Append(registered,
                    [cls |-> cls, arg |-> InstanceArg(cls), caps |-> caps])
            /\ rlast' = [op |-> "register_variant", cls |-> cls, caps |-> caps,
                         outcome |-> "return", handle |-> Len(registered) + 1]
    /\ UNCHANGED <<declared, notRegistry>>

\* Mutant of register_variant: nothing is checked at registration.
register_variant_unchecked(cls, caps) ==
    /\ Len(registered) < MaxVariants
    /\ registered' = Append(registered,
             [cls |-> cls, arg |-> InstanceArg(cls), caps |-> caps])
    /\ rlast' = [op |-> "register_variant", cls |-> cls, caps |-> caps,
                 outcome |-> "return", handle |-> Len(registered) + 1]
    /\ UNCHANGED <<declared, notRegistry>>

\* register_variant(variant, capabilities) -> VariantHandle
\* Fails with IncompleteImplementationError if the variant does not expose
\* every method required by each claimed capability.
register_variant(cls, caps) ==
    /\ Len(registered) < MaxVariants
    /\ IF MissingMethods(cls, caps, declared) # {}
       THEN /\ rlast' = [op |-> "register_variant", cls |-> cls, caps |-> caps,
                         outcome |-> "IncompleteImplementationError"]
            /\ UNCHANGED registered
       ELSE /\ registered' = Append(registered,
                    [cls |-> cls, arg |-> InstanceArg(cls), caps |-> caps])
            /\ rlast' = [op |-> "register_variant", cls |-> cls, caps |-> caps,
                         outcome |-> "return", handle |-> Len(registered) + 1]
    /\ UNCHANGED <<declared, notRegistry>>

\* Mutant of invoke: the method is looked up on the variant itself, whatever
\* the capability declares.
invoke_by_lookup(h, c, method) ==
    LET v == registered[h]
        r == CallMethod(v, method)
        call == [op |-> "invoke", handle |-> h, cls |-> v.cls, cap |-> c,
                 method |-> method]
    IN  /\ c \in v.caps
        /\ rlast' =
             IF method \notin ClassMethods(v.cls)
             THEN call @@ [outcome |-> "UnsupportedOperationError", ran |-> FALSE]
             ELSE IF r.outcome = "raise"
             THEN call @@ [outcome |-> "VariantExecutionError", cause |-> r.exc,
                           ran |-> TRUE]
             ELSE call @@ [outcome |-> "return", value |-> r.value,
                           printed |-> r.printed, ran |-> TRUE]
        /\ UNCHANGED <<declared, registered, notRegistry>>

\* invoke(variant_handle, capability_handle, method_name, *args) -> Result
\* for a capability the variant was registered against.  Fails with
\* UnsupportedOperationError if the method is not part of the declared
\* capability; a failure raised by the variant's method body is surfaced as
\* VariantExecutionError naming its cause; a method the variant does not have
\* at all is the AttributeError of the lookup.
invoke(h, c, method) ==
    LET v == registered[h]
        r == CallMethod(v, method)
        call == [op |-> "invoke", handle |-> h, cls |-> v.cls, cap |-> c,
                 method |-> method]
    IN  /\ c \in v.caps
        /\ rlast' =
             IF method \notin declared[c]
             THEN call @@ [outcome |-> "UnsupportedOperationError", ran |-> FALSE]
             ELSE IF method \notin ClassMethods(v.cls)
             THEN call @@ [outcome |-> "AttributeError", ran |-> FALSE]
             ELSE IF r.outcome = "raise"
             THEN call @@ [outcome |-> "VariantExecutionError", cause |-> r.exc,
                           ran |-> TRUE]
             ELSE call @@ [outcome |-> "return", value |-> r.value,
                           printed |-> r.printed, ran |-> TRUE]
        /\ UNCHANGED <<declared, registered, notRegistry>>

InitRegistry ==
    /\ script \in {"isp", "lsp"}
    /\ IdleRegistry
    /\ IdleRepo
    /\ IdleDriver
    /\ IdleDispatch
    /\ IdleShapes
    /\ IdleReport

NextRegistry ==
    \/ \E name \in CapabilityNames(script) :
       \E sigs \in SignatureChoices(script, name) :
          declare_capability(name, sigs)
    \/ \E cls \in VariantClasses(script) : \E caps \in SUBSET (DOMAIN declared) :
          register_variant(cls, caps)
    \/ \E h \in 1..Len(registered) : \E c \in DOMAIN declared :
       \E method \in InvokeMethods(script) :
          invoke(h, c, method)

SpecRegistry == InitRegistry /\ [][NextRegistry]_vars

(***************************************************************************)
(* Claims about the registry (checked under SpecRegistry).                 *)
(***************************************************************************)
\* C2: register_variant of a variant that lacks a method required by a
\* capability it claims fails with IncompleteImplementationError and leaves
\* the registry as it was: no handle is created, so the variant cannot be
\* invoked, and every variant that is in the registry has every method of
\* every capability it claims.
C2_IncompleteRejected ==
    [][ /\ ( /\ rlast'.op = "register_variant"
             /\ MissingMethods(rlast'.cls, rlast'.caps, declared) # {} )
           => /\ rlast'.outcome = "IncompleteImplementationError"
              /\ registered' = registered
              /\ declared' = declared
        /\ \A h \in 1..Len(registered') : \A c \in registered'[h].caps :
              declared'[c] \subseteq ClassMethods(registered'[h].cls)
      ]_vars

\* SimplePrinter claimed Printer, which it fulfils, and Scanner, whose
\* methods it lacks, and was refused.
C2_Witness ==
    /\ rlast.op = "register_variant"
    /\ rlast.cls = "SimplePrinter"
    /\ rlast.caps = {"Printer", "Scanner"}
    /\ rlast.outcome = "IncompleteImplementationError"
    /\ \A h \in 1..Len(registered) : registered[h].cls # "SimplePrinter"

C4_DuplicateRejected ==
    [][ ( /\ rlast'.op = "declare_capability"
          /\ rlast'.name \in DOMAIN declared )
        => /\ rlast'.outcome = "DuplicateCapabilityError"
           /\ declared' = declared
           /\ registered' = registered
      ]_vars

\* A name was declared again with other signatures than it has, with a
\* variant already registered, and the call was refused.
C4_Witness ==
    /\ rlast.op = "declare_capability"
    /\ rlast.outcome = "DuplicateCapabilityError"
    /\ rlast.sigs # declared[rlast.name]
    /\ Len(registered) >= 1

\* C5: invoke of a method that is not in the declared capability's method
\* set fails with UnsupportedOperationError and runs no variant code, also
\* when the variant has a method of that name.
C5_UnsupportedOperation ==
    ( /\ rlast.op = "invoke"
      /\ rlast.method \notin declared[rlast.cap] )
    => /\ rlast.outcome = "UnsupportedOperationError"
       /\ ~rlast.ran

\* A MultiFunctionPrinter registered against Printer and Scanner was asked,
\* through Printer, to scan_document.
C5_Witness ==
    /\ rlast.op = "invoke"
    /\ rlast.cls = "MultiFunctionPrinter"
    /\ rlast.cap = "Printer"
    /\ rlast.method = "scan_document"
    /\ "scan_document" \in ClassMethods(rlast.cls)
    /\ registered[rlast.handle].caps = {"Printer", "Scanner"}
    /\ rlast.outcome = "UnsupportedOperationError"
    /\ ~rlast.ran


(***************************************************************************)
(* ocp_example.py: the Shape hierarchy and GoodAreaCalculator.             *)
(*                                                                         *)
(* An area is kept exact: halves is twice its rational part and pi the     *)
(* coefficient of math.pi; ty is the Python type of the number.            *)
(***************************************************************************)
ShapeClasses == {"GoodRectangle", "GoodCircle", "Triangle", "Pentagon"}

\* The dimensions the constructors are called with.
Dims == {2, 3}

\* The second constructor argument; GoodCircle takes only radius.
SecondDims(cls) == IF cls = "GoodCircle" THEN {0} ELSE Dims

Area(halves, pi, ty) == [halves |-> halves, pi |-> pi, ty |-> ty]

\* Mutant of Shape_init: the dimensions are stored on the class, so every
\* instance of the class sees the dimensions of the one built last.
Shape_init_on_class(heap, cls, a, b) ==
    LET obj == [cls |-> cls, a |-> a, b |-> b]
    IN  Append([i \in 1..Len(heap) |->
                    IF heap[i].cls = cls THEN obj ELSE heap[i]], obj)

\* __init__ of GoodRectangle(width, height), GoodCircle(radius),
\* Triangle(base, height), Pentagon(side, apothem): the arguments are stored
\* on the new instance, which joins the heap.
Shape_init(heap, cls, a, b) ==
    Append(heap, [cls |-> cls, a |-> a, b |-> b])

\* return self.width * self.height
GoodRectangle_calculate_area(self) == Area(2 * self.a * self.b, 0, "int")

\* return math.pi * self.radius ** 2
GoodCircle_calculate_area(self) == Area(0, self.a * self.a, "float")

\* return (self.base * self.height) / 2
Triangle_calculate_area(self) == Area(self.a * self.b, 0, "float")

\* perimeter = 5 * self.side; return (perimeter * self.apothem) / 2
Pentagon_calculate_area(self) ==
    LET perimeter == 5 * self.a
    IN  Area(perimeter * self.b, 0, "float")

\* shape.calculate_area(), dispatched on the class of the instance
Shape_calculate_area(self) ==
    CASE self.cls = "GoodRectangle" -> GoodRectangle_calculate_area(self)
      [] self.cls = "GoodCircle"    -> GoodCircle_calculate_area(self)
      [] self.cls = "Triangle"      -> Triangle_calculate_area(self)
      [] self.cls = "Pentagon"      -> Pentagon_calculate_area(self)

\* shape.get_shape_type()
Shape_get_shape_type(self) ==
    CASE self.cls = "GoodRectangle" -> "Rectángulo"
      [] self.cls = "GoodCircle"    -> "Círculo"
      [] self.cls = "Triangle"      -> "Triángulo"
      [] self.cls = "Pentagon"      -> "Pentágono"

\* GoodAreaCalculator.calculate_area(shape)
GoodAreaCalculator_calculate_area(shape) == Shape_calculate_area(shape)

\* math.pi in units of 10^-5
PiE5 == 314159

\* f"{x:.2f}": the number rounded to hundredths, as a count of hundredths
Format2f(x) == x.halves * 50 + (x.pi * PiE5 + 500) \div 1000

\* a + b on Python numbers: int only when both are int
PyAdd(x, y) ==
    Area(x.halves + y.halves, x.pi + y.pi,
         IF x.ty = "int" /\ y.ty = "int" THEN "int" ELSE "float")

\* sum(shape.calculate_area() for shape in shapes), starting from int 0
RECURSIVE SumAreas(_)
SumAreas(seq) ==
    IF seq = <<>> THEN Area(0, 0, "int")
    ELSE PyAdd(SumAreas(SubSeq(seq, 1, Len(seq) - 1)),
               Shape_calculate_area(seq[Len(seq)]))

\* A shape is constructed: GoodRectangle(5, 10), Triangle(6, 8), ...
new_shape(cls, a, b) ==
    /\ Len(shapes) < MaxShapes
    /\ shapes' = Shape_init(shapes, cls, a, b)
    /\ aret' = [op |-> "new", shape |-> Len(shapes) + 1]
    /\ UNCHANGED notShapes

\* GoodAreaCalculator.calculate_area(shape)
calculate_area(i) ==
    /\ aret' = [op |-> "calculate_area", shape |-> i,
                value |-> GoodAreaCalculator_calculate_area(shapes[i])]
    /\ UNCHANGED <<shapes, notShapes>>

\* GoodAreaCalculator.print_shape_info(shape)
print_shape_info(i) ==
    /\ aret' = [op |-> "print_shape_info", shape |-> i,
                printed |-> [type |-> Shape_get_shape_type(shapes[i]),
                             area |-> Format2f(Shape_calculate_area(shapes[i]))],
                value |-> PyNone]
    /\ UNCHANGED <<shapes, notShapes>>

\* GoodAreaCalculator.calculate_total_area(shapes)
calculate_total_area ==
    /\ aret' = [op |-> "calculate_total_area", value |-> SumAreas(shapes)]
    /\ UNCHANGED <<shapes, notShapes>>

InitShapes ==
    /\ script = "ocp"
    /\ IdleShapes
    /\ IdleRepo
    /\ IdleDriver
    /\ IdleDispatch
    /\ IdleRegistry
    /\ IdleReport

NextShapes ==
    \/ \E cls \in ShapeClasses : \E a \in Dims : \E b \in SecondDims(cls) :
          new_shape(cls, a, b)
    \/ \E i \in 1..Len(shapes) : calculate_area(i)
    \/ \E i \in 1..Len(shapes) : print_shape_info(i)
    \/ calculate_total_area

SpecShapes == InitShapes /\ [][NextShapes]_vars

\* C7: adding a shape of any class after others exist changes no earlier
\* shape: every earlier instance is the same object with the same area and
\* the same type name as before, and no call of the calculator changes any
\* shape; a calculate_area answer is the area of the dimensions the shape
\* was built with.
C7_ClosedForModification ==
    [][ /\ \A i \in 1..Len(shapes) :
              /\ shapes'[i] = shapes[i]
              /\ GoodAreaCalculator_calculate_area(shapes'[i])
                    = GoodAreaCalculator_calculate_area(shapes[i])
              /\ Shape_get_shape_type(shapes'[i]) = Shape_get_shape_type(shapes[i])
        /\ aret'.op # "new" => shapes' = shapes
      ]_vars

\* A GoodRectangle built before a second GoodRectangle of other dimensions
\* was asked for its area afterwards and answered width * height of its own.
C7_Witness ==
    /\ Len(shapes) = 2
    /\ shapes[1] = [cls |-> "GoodRectangle", a |-> 2, b |-> 3]
    /\ shapes[2] = [cls |-> "GoodRectangle", a |-> 3, b |-> 3]
    /\ aret.op = "calculate_area"
    /\ aret.shape = 1
    /\ aret.value = Area(12, 0, "int")


(***************************************************************************)
(* srp_example.py: ReportService and its collaborators.                    *)
(***************************************************************************)
\* The text has a character json.dumps escapes.
ReportData == {"Ventas Q4 \"2024\""}

FormatTypes == {"html", "pdf", "json", "txt"}

\* File names process_report is called with: two in the working directory
\* and one in a directory that does not exist.
Filenames == {"reporte_ventas.html", "reporte_ventas.json", "no_such_dir/reporte.html"}

\* ch in s
Contains(s, ch) == \E i \in 1..Len(s) : SubSeq(s, i, i) = ch

\* ReportGenerator.generate_content(data)
ReportGenerator_generate_content(data) == "Reporte generado con datos: " \o data

\* ReportFormatter.format_to_html(content)
ReportFormatter_format_to_html(content) ==
    "<html><body>" \o content \o "</body></html>"

\* ReportFormatter.format_to_pdf(content)
ReportFormatter_format_to_pdf(content) == "PDF: " \o content

\* The body of a JSON string literal for printable ASCII text: json.dumps
\* escapes the quote and the backslash.
RECURSIVE JsonEscape(_)
JsonEscape(str) ==
    IF str = "" THEN ""
    ELSE LET c == SubSeq(str, 1, 1)
         IN  (IF c = "\"" THEN "\\\""
              ELSE IF c = "\\" THEN "\\\\"
              ELSE c) \o JsonEscape(SubSeq(str, 2, Len(str)))

\* ReportFormatter.format_to_json(content):
\* json.dumps({"report": content}, indent=2)
ReportFormatter_format_to_json(content) ==
    "{\n  \"report\": \"" \o JsonEscape(content) \o "\"\n}"

\* ReportPrinter.print_report(formatted_report): what it prints
ReportPrinter_print_report(formatted_report) ==
    [ev |-> "print", text |-> "Imprimiendo: " \o formatted_report]

\* open(filename, 'w'): the file is created in a directory that exists; only
\* the working directory does.
OpenForWrite(filename) ==
    IF filename = "" \/ Contains(filename, "/")
    THEN [outcome |-> "raise", exc |-> "FileNotFoundError",
          msg |-> "[Errno 2] No such file or directory: '" \o filename \o "'"]
    ELSE [outcome |-> "return"]

\* ReportSaver.save_to_file(content, filename): the write is attempted inside
\* try/except Exception; on failure the exception is printed and the method
\* returns None like on success (the pictographs that open the printed
\* lines are left out).  Gives the file system after the call, the
\* events printed, and what was caught.
ReportSaver_save_to_file(files, content, filename) ==
    LET announce == [ev |-> "print",
                     text |-> "Guardando reporte en archivo: " \o filename]
        f == OpenForWrite(filename)
    IN  IF f.outcome = "return"
        THEN [fs |-> DictSet(files, filename, content),
              events |-> <<announce,
                           [ev |-> "write", filename |-> filename,
                            content |-> content],
                           [ev |-> "print",
                            text |-> "Archivo guardado exitosamente: " \o filename]>>,
              caught |-> "none", outcome |-> "return", value |-> PyNone]
        ELSE [fs |-> files,
              events |-> <<announce,
                           [ev |-> "print",
                            text |-> "Error al guardar archivo: " \o f.msg]>>,
              caught |-> f.exc, outcome |-> "return", value |-> PyNone]

\* Mutant of the formatter branch: an unknown format_type falls back to
\* html, the default of the parameter.
FormatReport_default_html(content, format_type) ==
    IF format_type = "pdf" THEN ReportFormatter_format_to_pdf(content)
    ELSE IF format_type = "json" THEN ReportFormatter_format_to_json(content)
    ELSE ReportFormatter_format_to_html(content)

\* The formatter branch of ReportService.process_report
FormatReport(content, format_type) ==
    IF format_type = "html" THEN ReportFormatter_format_to_html(content)
    ELSE IF format_type = "pdf" THEN ReportFormatter_format_to_pdf(content)
    ELSE IF format_type = "json" THEN ReportFormatter_format_to_json(content)
    ELSE content

\* ReportService.process_report(data, filename, format_type)
process_report(data, filename, format_type) ==
    LET content == ReportGenerator_generate_content(data)
        formatted == FormatReport(content, format_type)
        saved == ReportSaver_save_to_file(fs, formatted, filename)
    IN  /\ fs' = saved.fs
        /\ sret' = [op |-> "process_report", data |-> data,
                    filename |-> filename, format_type |-> format_type,
                    calls |-> << [on |-> "printer", method |-> "print_report",
                                  args |-> <<formatted>>],
                                 [on |-> "saver", method |-> "save_to_file",
                                  args |-> <<formatted, filename>>] >>,
                    events |-> <<ReportPrinter_print_report(formatted)>>
                                  \o saved.events,
                    caught |-> saved.caught,
                    outcome |-> "return", value |-> formatted]
        /\ UNCHANGED <<users, notReport>>


(***************************************************************************)
(* srp_example.py: UserService and its collaborators.                      *)
(***************************************************************************)
Usernames == {"ana_garcia", "maria"}

\* "a@b.c" has both characters but only five of them; "ana@ejemplo" has
\* no '.', "email_invalido" neither character.
Emails == {"ana@ejemplo.com", "email_invalido", "a@b.c", "ana@ejemplo"}

Passwords == {"password123"}

\* Mutant of EmailValidator.is_valid: five characters are enough.
EmailValidator_is_valid_lenient(email) ==
    Contains(email, "@") /\ Contains(email, ".") /\ Len(email) >= 5

\* EmailValidator.is_valid(email)
EmailValidator_is_valid(email) ==
    Contains(email, "@") /\ Contains(email, ".") /\ Len(email) > 5

\* EmailValidator.validate_format(email)
EmailValidator_validate_format(email) ==
    IF ~EmailValidator_is_valid(email)
    THEN [outcome |-> "raise", exc |-> "ValueError",
          msg |-> "Email inválido: " \o email]
    ELSE [outcome |-> "return", value |-> PyNone]

\* Mutant of PasswordEncryptor.encrypt: the password is kept as it is.
PasswordEncryptor_encrypt_plain(password) == password

\* PasswordEncryptor.encrypt(password): hashlib.md5(...).hexdigest(),
\* tabulated for the passwords of the model.
PasswordEncryptor_encrypt(password) ==
    CASE password = "password123" -> "482c811da5d5b4bc6d497ffa98491e38"
      [] password = "123"         -> "202cb962ac59075b964b07152d234b70"
      [] password = "secreto456"  -> "abbbcc0d32e622d85f121a7ca2645c9d"

\* User(username, email, password)
User(username, email, password) ==
    [username |-> username, email |-> email, password |-> password]

\* Mutant of UserRepository.save: the user is put at the front of the list.
UserRepository_save_prepend(list, user) == <<user>> \o list

\* UserRepository.save(user): the list after the append
UserRepository_save(list, user) == Append(list, user)

\* UserRepository.find_by_username(username): the first match, or None
UserRepository_find_by_username(list, username) ==
    LET hits == {i \in 1..Len(list) : list[i].username = username}
    IN  IF hits = {} THEN PyNone
        ELSE list[CHOOSE i \in hits : \A j \in hits : i <= j]

\* UserRepository.get_all(): a copy of the list
UserRepository_get_all(list) == list

\* UserService.register_user(username, email, password)
register_user(username, email, password) ==
    LET checked == EmailValidator_validate_format(email)
        user == User(username, email, PasswordEncryptor_encrypt(password))
    IN  IF checked.outcome = "raise"
        THEN /\ sret' = [op |-> "register_user", username |-> username,
                         email |-> email, password |-> password,
                         events |-> <<[ev |-> "print",
                                       text |-> "Error al registrar usuario: "
                                                   \o checked.msg]>>,
                         caught |-> checked.exc,
                         outcome |-> "return", value |-> PyNone]
             /\ UNCHANGED <<users, fs, notReport>>
        ELSE /\ Len(users) < MaxUsers
             /\ users' = UserRepository_save(users, user)
             /\ sret' = [op |-> "register_user", username |-> username,
                         email |-> email, password |-> password,
                         events |-> <<[ev |-> "save", user |-> user],
                                      [ev |-> "welcome_email", to |-> user.email,
                                       username |-> user.username],
                                      [ev |-> "print",
                                       text |-> "Usuario " \o username
                                                  \o " registrado exitosamente"]>>,
                         caught |-> "none",
                         outcome |-> "return", value |-> user]
             /\ UNCHANGED <<fs, notReport>>

\* user_service.repository.find_by_username(username)
find_by_username(username) ==
    /\ sret' = [op |-> "find_by_username", username |-> username,
                outcome |-> "return",
                value |-> UserRepository_find_by_username(users, username)]
    /\ UNCHANGED <<users, fs, notReport>>

\* user_service.repository.get_all()
get_all ==
    /\ sret' = [op |-> "get_all", outcome |-> "return",
                value |-> UserRepository_get_all(users)]
    /\ UNCHANGED <<users, fs, notReport>>

InitReport ==
    /\ script = "srp"
    /\ IdleReport
    /\ IdleRepo
    /\ IdleDriver
    /\ IdleDispatch
    /\ IdleRegistry
    /\ IdleShapes

NextReport ==
    \/ \E data \in ReportData : \E filename \in Filenames :
          \E format_type \in FormatTypes :
             process_report(data, filename, format_type)
    \/ \E username \in Usernames : \E email \in Emails :
          \E password \in Passwords :
             register_user(username, email, password)
    \/ \E username \in Usernames : find_by_username(username)
    \/ get_all

SpecReport == InitReport /\ [][NextReport]_vars

\* C6 as claimed, for process_report: when the file write raised inside
\* ReportSaver.save_to_file, process_report does not return normally.
C6_WriteFailureSurfaced ==
    (sret.op = "process_report" /\ sret.caught # "none")
        => sret.outcome # "return"


(***************************************************************************)
(* The registry and srp's UserRepository side by side: the run is either   *)
(* one of registry calls (isp, lsp) or one of srp's services.              *)
(***************************************************************************)
InitGrowth ==
    /\ script \in {"isp", "lsp", "srp"}
    /\ IdleRegistry
    /\ IdleReport
    /\ IdleRepo
    /\ IdleDriver
    /\ IdleDispatch
    /\ IdleShapes

NextGrowth ==
    \/ script \in {"isp", "lsp"} /\ NextRegistry
    \/ script = "srp" /\ NextReport

SpecGrowth == InitGrowth /\ [][NextGrowth]_vars

\* C11: the registry only grows: no step removes or replaces a declared
\* capability or a registered variant; and UserRepository.users only grows
\* at its end: after every save, find_by_username and get_all (and every
\* register_user) the list it held before is a prefix of the list it holds.
C11_OnlyGrows ==
    [][ /\ \A n \in DOMAIN declared :
              n \in DOMAIN declared' /\ declared'[n] = declared[n]
        /\ Len(registered') >= Len(registered)
        /\ \A h \in 1..Len(registered) : registered'[h] = registered[h]
        /\ Len(users') >= Len(users)
        /\ SubSeq(users', 1, Len(users)) = users
      ]_vars

\* Two users were saved one after the other and the first was then found
\* by name, still first in the list.
C11_Witness ==
    /\ Len(users) = 2
    /\ users[1].username # users[2].username
    /\ sret.op = "find_by_username"
    /\ sret.value = users[1]


(***************************************************************************)
(* dip_example.py: the two coordinators, NotificationService and           *)
(* DataService.  They share no object, and a run is one of the driver's    *)
(* two scenarios: notification services only, or data services only.       *)
(***************************************************************************)
InitCoordinators ==
    /\ script = "dip"
    /\ IdleDispatch
    /\ IdleRepo
    /\ IdleDriver
    /\ IdleRegistry
    /\ IdleShapes
    /\ IdleReport

NextCoordinators ==
    \/ /\ dataServices = <<>>
       /\ \E cls \in SenderClasses : \E arg \in SenderArgs(cls) :
             NotificationService_init(cls, arg)
    \/ \E i \in 1..Len(nsvcs) : \E message \in Messages :
          \E recipient \in Recipients : send_notification(i, message, recipient)
    \/ /\ nsvcs = <<>>
       /\ \E kind \in RepoKinds : create_data_service(kind)
    \/ \E s \in 1..Len(dataServices) : \E data \in DataValues :
          process_data(s, data)
    \/ \E s \in 1..Len(dataServices) : \E id \in Ids : cleanup_data(s, id)

SpecCoordinators == InitCoordinators /\ [][NextCoordinators]_vars

\* C12: a coordinator is stateless beyond the injected reference: no
\* send_notification, process_data or cleanup_data (and no construction of
\* another coordinator) changes which variant an existing NotificationService
\* or DataService holds, and message_sender, respectively repository, is
\* the only field the coordinator has, before and after every call.
C12_CoordinatorStateless ==
    [][ /\ \A i \in 1..Len(nsvcs) :
              /\ nsvcs'[i] = nsvcs[i]
              /\ DOMAIN nsvcs'[i] = {"message_sender"}
        /\ \A s \in 1..Len(dataServices) :
              /\ dataServices'[s] = dataServices[s]
              /\ DOMAIN dataServices'[s] = {"repository"}
      ]_vars

\* A DataService that had stored a record was asked to clean up another id:
\* its repository changed state twice, the service still holds it.
C12_Witness ==
    /\ dret.op = "cleanup_data"
    /\ dret.id = "p1"
    /\ Len(dataServices) = 2
    /\ dataServices[1].repository = dret.repo
    /\ repos[dret.repo].store # EmptyDict


(***************************************************************************)
(* lsp_example.py: Rectangle, Square and ShapeCalculator.resize_rectangle. *)
(* The instances live in shapes; an instance is the record of its          *)
(* attributes (width and height stand for _width and _height).             *)
(***************************************************************************)
Colors == {"Naranja"}

\* The widths, heights and sides used by constructors and setters.
Sides == {2, 3}

\* Rectangle.__init__(color, width, height)
Rectangle_init(color, width, height) ==
    [cls |-> "Rectangle", color |-> color, width |-> width, height |-> height]

\* Square.__init__(color, side): super().__init__(color, side, side)
Square_init(color, side) ==
    [Rectangle_init(color, side, side) EXCEPT !.cls = "Square"]

\* Rectangle.set_width(width)
Rectangle_set_width(self, width) == [self EXCEPT !.width = width]

\* Rectangle.set_height(height)
Rectangle_set_height(self, height) == [self EXCEPT !.height = height]

\* Square.set_width(width): both sides
Square_set_width(self, width) ==
    [self EXCEPT !.width = width, !.height = width]

\* Mutant of Square.set_height: only the height, as Rectangle does.
Square_set_height_inherited(self, height) == [self EXCEPT !.height = height]

\* Square.set_height(height): both sides
Square_set_height(self, height) ==
    [self EXCEPT !.height = height, !.width = height]

\* rectangle.set_width(width), dispatched on the class of the instance
Dispatch_set_width(self, width) ==
    IF self.cls = "Square" THEN Square_set_width(self, width)
    ELSE Rectangle_set_width(self, width)

\* rectangle.set_height(height), dispatched on the class of the instance
Dispatch_set_height(self, height) ==
    IF self.cls = "Square" THEN Square_set_height(self, height)
    ELSE Rectangle_set_height(self, height)

\* Rectangle.get_width(), inherited by Square
Rectangle_get_width(self) == self.width

\* Rectangle.get_height(), inherited by Square
Rectangle_get_height(self) == self.height

\* Rectangle.calculate_area(), inherited by Square
Rectangle_calculate_area(self) == self.width * self.height

\* f"{n:.2f}" of an int
FormatInt2f(n) == ToString(n) \o ".00"

\* The argument of the last constructor or setter call on each instance
\* (history kept with the last call; empty before any call).
LastSet == IF "last" \in DOMAIN aret THEN aret.last ELSE <<>>

\* Rectangle(color, width, height)
new_rectangle(color, width, height) ==
    /\ Len(shapes) < MaxShapes
    /\ shapes' = Append(shapes, Rectangle_init(color, width, height))
    /\ aret' = [op |-> "Rectangle", shape |-> Len(shapes) + 1,
                last |-> Append(LastSet, height)]
    /\ UNCHANGED notShapes

\* Square(color, side)
new_square(color, side) ==
    /\ Len(shapes) < MaxShapes
    /\ shapes' = Append(shapes, Square_init(color, side))
    /\ aret' = [op |-> "Square", shape |-> Len(shapes) + 1,
                last |-> Append(LastSet, side)]
    /\ UNCHANGED notShapes

\* rectangle.set_width(width)
set_width(i, width) ==
    /\ shapes' = [shapes EXCEPT ![i] = Dispatch_set_width(shapes[i], width)]
    /\ aret' = [op |-> "set_width", shape |-> i, width |-> width,
                last |-> [LastSet EXCEPT ![i] = width]]
    /\ UNCHANGED notShapes

\* rectangle.set_height(height)
set_height(i, height) ==
    /\ shapes' = [shapes EXCEPT ![i] = Dispatch_set_height(shapes[i], height)]
    /\ aret' = [op |-> "set_height", shape |-> i, height |-> height,
                last |-> [LastSet EXCEPT ![i] = height]]
    /\ UNCHANGED notShapes

\* ShapeCalculator.resize_rectangle(rectangle, new_width, new_height)
resize_rectangle(i, new_width, new_height) ==
    LET rectangle == shapes[i]
        widened   == Dispatch_set_width(rectangle, new_width)
        resized   == Dispatch_set_height(widened, new_height)
    IN  /\ shapes' = [shapes EXCEPT ![i] = resized]
        /\ aret' = [op |-> "resize_rectangle", shape |-> i,
                    new_width |-> new_width, new_height |-> new_height,
                    printed |-> << "Redimensionando " \o rectangle.color
                                      \o " rectangle:",
                                   "  Área original: " \o
                                      FormatInt2f(Rectangle_calculate_area(rectangle)),
                                   "  Área nueva: " \o
                                      FormatInt2f(Rectangle_calculate_area(resized)) >>,
                    value |-> PyNone,
                    last |-> [LastSet EXCEPT ![i] = new_height]]
        /\ UNCHANGED notShapes

InitRectangles ==
    /\ script = "lsp"
    /\ IdleShapes
    /\ IdleRepo
    /\ IdleDriver
    /\ IdleDispatch
    /\ IdleRegistry
    /\ IdleReport

NextRectangles ==
    \/ \E color \in Colors : \E width \in Sides : \E height \in Sides :
          new_rectangle(color, width, height)
    \/ \E color \in Colors : \E side \in Sides : new_square(color, side)
    \/ \E i \in 1..Len(shapes) : \E width \in Sides : set_width(i, width)
    \/ \E i \in 1..Len(shapes) : \E height \in Sides : set_height(i, height)
    \/ \E i \in 1..Len(shapes) : \E new_width \in Sides : \E new_height \in Sides :
          resize_rectangle(i, new_width, new_height)

SpecRectangles == InitRectangles /\ [][NextRectangles]_vars

\* C13 as claimed: after resize_rectangle(rectangle, new_width, new_height)
\* the object reports get_width() = new_width, get_height() = new_height and
\* calculate_area() = new_width * new_height, be it a Rectangle or a Square.
C13_ResizeAsRectangle ==
    aret.op = "resize_rectangle" =>
        LET rectangle == shapes[aret.shape]
        IN  /\ Rectangle_get_width(rectangle) = aret.new_width
            /\ Rectangle_get_height(rectangle) = aret.new_height
            /\ Rectangle_calculate_area(rectangle)
                  = aret.new_width * aret.new_height

\* C14: a Square keeps its square invariant: in every state every Square
\* has get_width() = get_height(), and both are the argument of the last
\* setter called on it (for resize_rectangle the new_height, set last), or
\* the constructor's side if no setter was called.
C14_SquareInvariant ==
    \A i \in 1..Len(shapes) :
        shapes[i].cls = "Square" =>
            /\ Rectangle_get_width(shapes[i]) = Rectangle_get_height(shapes[i])
            /\ Rectangle_get_width(shapes[i]) = LastSet[i]

\* A Square built with side 2 had set_width(3) and then set_height(2)
\* called on it (resized to 3 by 2) and is 2 by 2.
C14_Witness ==
    /\ aret.op = "resize_rectangle"
    /\ shapes[aret.shape].cls = "Square"
    /\ aret.new_width = 3
    /\ aret.new_height = 2
    /\ Rectangle_get_width(shapes[aret.shape]) = 2
    /\ Rectangle_get_height(shapes[aret.shape]) = 2


(***************************************************************************)
(* dip_example.py: NotificationService with any sender injected, the       *)
(* source's four and one written by the caller that may return False.      *)
(***************************************************************************)
InjectedSenders ==
    UNION { { [cls |-> cls, arg |-> arg] : arg \in SenderArgs(cls) } :
            cls \in SenderClasses }
        \cup { [cls |-> "CallerSender", arg |-> arg] : arg \in {"True", "False"} }

InitRouting ==
    /\ script = "dip"
    /\ IdleDispatch
    /\ IdleRepo
    /\ IdleDriver
    /\ IdleRegistry
    /\ IdleShapes
    /\ IdleReport

NextRouting ==
    \/ \E sender \in InjectedSenders :
          NotificationService_init(sender.cls, sender.arg)
    \/ \E i \in 1..Len(nsvcs) : \E message \in Messages :
          \E recipient \in Recipients : send_notification(i, message, recipient)

SpecRouting == InitRouting /\ [][NextRouting]_vars

\* C15: send_notification routes only to the injected sender: a call makes
\* exactly two calls, get_sender_type and then send_message, both on the
\* sender given at construction, send_message with the caller's message and
\* recipient; it returns exactly what send_message returned, False as False.
C15_RoutesToInjected ==
    \A i \in 1..Len(nsvcs) :
        nlast[i].called =>
            LET sender == nsvcs[i].message_sender
                calls  == nlast[i].calls
            IN  /\ Len(calls) = 2
                /\ calls[1].on = sender
                /\ calls[1].method = "get_sender_type"
                /\ calls[2].on = sender
                /\ calls[2].method = "send_message"
                /\ calls[2].args = <<nlast[i].message, nlast[i].recipient>>
                /\ calls[2].ret =
                      MessageSender_send_message(sender, nlast[i].message,
                                                 nlast[i].recipient).ret
                /\ nlast[i].value = calls[2].ret

\* A service built on a sender whose send_message returns False was called
\* and returned False, next to a service on an SMSService.
C15_Witness ==
    /\ Len(nsvcs) = 2
    /\ nsvcs[1].message_sender.cls = "SMSService"
    /\ nsvcs[2].message_sender = [cls |-> "CallerSender", arg |-> "False"]
    /\ nlast[2].called
    /\ nlast[2].calls[2].ret = PyBool(FALSE)
    /\ nlast[2].value = PyBool(FALSE)


(***************************************************************************)
(* Claims about srp's services (checked under SpecReport).                 *)
(***************************************************************************)
\* An email the validator has to refuse: no '@', no '.', or at most five
\* characters.
InvalidEmail(email) ==
    ~Contains(email, "@") \/ ~Contains(email, ".") \/ Len(email) <= 5

\* The events of the given kind in a call's event list.
EventsOf(events, kind) == {k \in 1..Len(events) : events[k].ev = kind}

\* C16: register_user with an email that has no '@', no '.' or at most five
\* characters returns None, leaves the repository's user list unchanged and
\* sends no welcome email (nor saves anything); it returns, it does not
\* raise.
C16_InvalidEmailRefused ==
    [][ (sret'.op = "register_user" /\ InvalidEmail(sret'.email))
        => /\ sret'.outcome = "return"
           /\ sret'.value = PyNone
           /\ users' = users
           /\ EventsOf(sret'.events, "welcome_email") = {}
           /\ EventsOf(sret'.events, "save") = {}
      ]_vars

\* After a user was registered, a registration with the five-character
\* email "a@b.c" was refused.
C16_Witness ==
    /\ sret.op = "register_user"
    /\ sret.email = "a@b.c"
    /\ sret.value = PyNone
    /\ Len(users) = 1

\* C17: after any sequence of register_user calls every user in the
\* repository has a valid email and as password the encryption of a
\* password supplied, never the plaintext; a successful call appends exactly
\* its user (username and email as given, password encrypted) to the list
\* and an unsuccessful one leaves the list alone, so the list holds one user
\* per successful call in call order; and the user's save comes before its
\* welcome email.
C17_RegisteredUsers ==
    [][ /\ \A k \in 1..Len(users') :
              /\ ~InvalidEmail(users'[k].email)
              /\ users'[k].password \notin Passwords
              /\ \E password \in Passwords :
                    users'[k].password = PasswordEncryptor_encrypt(password)
        /\ sret'.op = "register_user" =>
              IF sret'.value = PyNone
              THEN users' = users
              ELSE /\ users' = Append(users, sret'.value)
                   /\ sret'.value.username = sret'.username
                   /\ sret'.value.email = sret'.email
                   /\ sret'.value.password # sret'.password
                   /\ sret'.value.password
                         = PasswordEncryptor_encrypt(sret'.password)
                   /\ \E a \in EventsOf(sret'.events, "save") :
                         /\ EventsOf(sret'.events, "save") = {a}
                         /\ sret'.events[a].user = sret'.value
                         /\ \E b \in EventsOf(sret'.events, "welcome_email") :
                               /\ EventsOf(sret'.events, "welcome_email") = {b}
                               /\ a < b
      ]_vars

\* Two users were registered, maria first and ana_garcia second.
C17_Witness ==
    /\ sret.op = "register_user"
    /\ Len(users) = 2
    /\ users[1].username = "maria"
    /\ users[2].username = "ana_garcia"
    /\ sret.value = users[2]
    /\ users[2].password = "482c811da5d5b4bc6d497ffa98491e38"

\* C18: process_report formats by type: html, pdf and json select their
\* formatter, any other format_type leaves the generated content as it is;
\* the string given to the printer, the string given to the saver and the
\* string returned are that one value; print_report is called before
\* save_to_file, and the printer's line comes before the saver's.
C18_FormatPrintSave ==
    sret.op = "process_report" =>
        LET content == "Reporte generado con datos: " \o sret.data
            expected ==
                CASE sret.format_type = "html" ->
                        "<html><body>" \o content \o "</body></html>"
                  [] sret.format_type = "pdf" -> "PDF: " \o content
                  [] sret.format_type = "json" ->
                        ReportFormatter_format_to_json(content)
                  [] OTHER -> content
        IN  /\ sret.value = expected
            /\ Len(sret.calls) = 2
            /\ sret.calls[1].method = "print_report"
            /\ sret.calls[1].args = <<expected>>
            /\ sret.calls[2].method = "save_to_file"
            /\ sret.calls[2].args = <<expected, sret.filename>>
            /\ sret.events[1] = [ev |-> "print", text |-> "Imprimiendo: " \o expected]
            /\ sret.events[2].text = "Guardando reporte en archivo: " \o sret.filename
            /\ sret.caught = "none" => fs[sret.filename] = expected
            /\ (sret.format_type = "json" /\ sret.data = "Ventas Q4 \"2024\"") =>
                  sret.value = "{\n  \"report\": \"Reporte generado con datos: "
                                  \o "Ventas Q4 \\\"2024\\\"\"\n}"

\* A report of an unknown format type was processed and written as the
\* bare generated content.
C18_Witness ==
    /\ sret.op = "process_report"
    /\ sret.format_type = "txt"
    /\ sret.filename = "reporte_ventas.json"
    /\ sret.value = "Reporte generado con datos: Ventas Q4 \"2024\""
    /\ fs["reporte_ventas.json"] = sret.value


(***************************************************************************)
(* lsp_example.py: main()'s bird section, run over a list of birds.        *)
(* driver holds main's locals (birds, the loop it is in, the loop index);  *)
(* log holds the method calls made on the birds.                           *)
(***************************************************************************)
BirdClasses == {"Eagle", "Penguin", "Duck", "Ostrich"}

\* The base classes each bird class is declared with.
BirdBases(cls) ==
    CASE cls = "Eagle"   -> {"Bird", "Flyable"}
      [] cls = "Penguin" -> {"Bird", "Swimmable", "RunningBird"}
      [] cls = "Duck"    -> {"Bird", "Flyable", "Swimmable"}
      [] cls = "Ostrich" -> {"Bird", "RunningBird"}
      [] OTHER           -> {"BadBird"}

\* isinstance(bird, base)
IsInstance(self, base) == base \in BirdBases(self.cls)

\* Eagle(), Penguin(), ...: the constructors take no argument
NewBird(cls) == [cls |-> cls, arg |-> InstanceArg(cls)]

\* The lists main may be run on: every list of at most MaxBirds birds.
BirdLists == UNION { [1..n -> BirdClasses] : n \in 0..MaxBirds }

\* bird.method(): the class's body, or AttributeError if it has none
CallOn(self, method) ==
    IF method \in ClassMethods(self.cls) THEN CallMethod(self, method)
    ELSE Raise("AttributeError", method)

\* The calls made when the methods are called one after the other on bird
\* number i, up to and including the first one that raises.
RECURSIVE CallsMade(_, _, _)
CallsMade(self, i, methods) ==
    IF methods = <<>> THEN <<>>
    ELSE LET r == CallOn(self, Head(methods))
             entry == [bird |-> i, cls |-> self.cls, method |-> Head(methods),
                       outcome |-> IF r.outcome = "raise" THEN r.exc ELSE "return"]
         IN  IF r.outcome = "raise" THEN <<entry>>
             ELSE <<entry>> \o CallsMade(self, i, Tail(methods))

\* What one iteration of a loop does to main: the next bird, or the end of
\* main if a call raised.
AfterCalls(made) ==
    IF made # <<>> /\ made[Len(made)].outcome # "return"
    THEN [driver EXCEPT !.loop = "raised", !.exc = made[Len(made)].outcome]
    ELSE [driver EXCEPT !.i = driver.i + 1]

\* BirdCare.feed_bird(bird) calls bird.eat(); main then bird.make_sound()
FeedMethods(self) == <<"eat", "make_sound">>

\* Mutant of ExerciseMethods: every bird is exercised in both ways.
ExerciseMethods_unguarded(self) ==
    <<"fly", "get_flight_speed", "swim", "get_swim_speed">>

\* The second loop's body: exercise_flying_bird if the bird is Flyable
\* (fly, get_flight_speed), exercise_swimming_bird if it is Swimmable
\* (swim, get_swim_speed).
ExerciseMethods(self) ==
    (IF IsInstance(self, "Flyable") THEN <<"fly", "get_flight_speed">> ELSE <<>>)
    \o (IF IsInstance(self, "Swimmable") THEN <<"swim", "get_swim_speed">>
        ELSE <<>>)

\* for bird in birds: bird_care.feed_bird(bird); bird.make_sound()
feed_next ==
    /\ driver.loop = "feed"
    /\ driver.i <= Len(driver.birds)
    /\ LET bird == driver.birds[driver.i]
           made == CallsMade(bird, driver.i, FeedMethods(bird))
       IN  /\ log' = log \o made
           /\ driver' = AfterCalls(made)
    /\ UNCHANGED notDriver

\* The first loop is exhausted; the second begins.
feed_done ==
    /\ driver.loop = "feed"
    /\ driver.i > Len(driver.birds)
    /\ driver' = [driver EXCEPT !.loop = "exercise", !.i = 1]
    /\ UNCHANGED <<log, notDriver>>

\* for bird in birds: the two isinstance tests and the calls they guard
exercise_next ==
    /\ driver.loop = "exercise"
    /\ driver.i <= Len(driver.birds)
    /\ LET bird == driver.birds[driver.i]
           made == CallsMade(bird, driver.i, ExerciseMethods(bird))
       IN  /\ log' = log \o made
           /\ driver' = AfterCalls(made)
    /\ UNCHANGED notDriver

\* The second loop is exhausted.
exercise_done ==
    /\ driver.loop = "exercise"
    /\ driver.i > Len(driver.birds)
    /\ driver' = [driver EXCEPT !.loop = "done"]
    /\ UNCHANGED <<log, notDriver>>

\* BadEagle().fly() or BadPenguin().fly(), called by a user of the old
\* hierarchy at any time; main does not call them.
bad_bird_fly(cls) ==
    LET r == CallOn(NewBird(cls), "fly")
    IN  /\ driver' = [driver EXCEPT !.bad =
                         [cls |-> cls, method |-> "fly",
                          outcome |-> IF r.outcome = "raise" THEN r.exc
                                      ELSE "return"]]
        /\ UNCHANGED <<log, notDriver>>

InitBirds ==
    /\ script = "lsp"
    /\ \E list \in BirdLists :
          driver = [op |-> "main", birds |-> [k \in DOMAIN list |-> NewBird(list[k])],
                    loop |-> "feed", i |-> 1, exc |-> "none", bad |-> NoCall]
    /\ log = <<>>
    /\ IdleRepo
    /\ IdleDispatch
    /\ IdleRegistry
    /\ IdleShapes
    /\ IdleReport

NextBirds ==
    \/ feed_next
    \/ feed_done
    \/ exercise_next
    \/ exercise_done
    \/ \E cls \in {"BadEagle", "BadPenguin"} : bad_bird_fly(cls)

SpecBirds == InitBirds /\ [][NextBirds]_vars


\* The positions in log of the calls of the method on bird number i.
CallsOf(i, method) ==
    {k \in 1..Len(log) : log[k].bird = i /\ log[k].method = method}

\* C19: in the corrected hierarchy main exercises a capability only on the
\* birds that declare it: fly (and get_flight_speed) is called only on
\* Eagle and Duck, swim (and get_swim_speed) only on Penguin and Duck,
\* Ostrich receives neither; once the first loop is over every bird was fed
\* exactly once; at the end exactly the Flyable birds have flown and exactly
\* the Swimmable ones have swum; no call raises, so main never ends in an
\* exception; whereas every call of BadPenguin.fly raises
\* NotImplementedError.
C19_ExerciseByCapability ==
    /\ driver.loop # "raised"
    /\ \A k \in 1..Len(log) :
          /\ log[k].outcome = "return"
          /\ log[k].cls = driver.birds[log[k].bird].cls
          /\ log[k].method \in {"fly", "get_flight_speed"}
                => log[k].cls \in {"Eagle", "Duck"}
          /\ log[k].method \in {"swim", "get_swim_speed"}
                => log[k].cls \in {"Penguin", "Duck"}
          /\ log[k].cls = "Ostrich" => log[k].method \in {"eat", "make_sound"}
    /\ driver.loop \in {"exercise", "done"} =>
          \A i \in 1..Len(driver.birds) : Cardinality(CallsOf(i, "eat")) = 1
    /\ driver.loop = "done" =>
          \A i \in 1..Len(driver.birds) :
              /\ Cardinality(CallsOf(i, "fly")) =
                    (IF driver.birds[i].cls \in {"Eagle", "Duck"} THEN 1 ELSE 0)
              /\ Cardinality(CallsOf(i, "swim")) =
                    (IF driver.birds[i].cls \in {"Penguin", "Duck"} THEN 1 ELSE 0)
    /\ (driver.bad # NoCall /\ driver.bad.cls = "BadPenguin")
          => driver.bad.outcome = "NotImplementedError"

\* main ran to its end over the driver's own list, Eagle, Penguin, Duck,
\* Ostrich, and BadPenguin().fly() was called besides.
C19_Witness ==
    /\ driver.loop = "done"
    /\ Len(driver.birds) = 4
    /\ driver.birds[1].cls = "Eagle"
    /\ driver.birds[2].cls = "Penguin"
    /\ driver.birds[3].cls = "Duck"
    /\ driver.birds[4].cls = "Ostrich"
    /\ Len(log) = 16
    /\ driver.bad # NoCall
    /\ driver.bad.cls = "BadPenguin"
    /\ driver.bad.outcome = "NotImplementedError"


(***************************************************************************)
(* ocp_example.py: BadAreaCalculator next to GoodAreaCalculator.  The heap *)
(* holds Shape instances, instances of the plain classes Rectangle(width,  *)
(* height) and Circle(radius), and objects of no shape class at all.       *)
(***************************************************************************)
PlainClasses == {"Rectangle", "Circle"}

\* The constructor calls that build something other than a Shape: the two
\* plain classes, and object().
PlainObjects ==
    { <<"Rectangle", a, b>> : a \in Dims, b \in Dims }
        \cup { <<"Circle", a, 0>> : a \in Dims }
        \cup { <<"object", 0, 0>> }

\* Mutant of BadAreaCalculator.calculate_area: the branches accept the
\* Shape-based classes of the same form too.
BadAreaCalculator_calculate_area_lenient(shape) ==
    IF shape.cls \in {"Rectangle", "GoodRectangle"}
    THEN Area(2 * shape.a * shape.b, 0, "int")
    ELSE IF shape.cls \in {"Circle", "GoodCircle"}
    THEN Area(0, shape.a * shape.a, "float")
    ELSE Area(0, 0, "int")

\* BadAreaCalculator.calculate_area(shape): the isinstance chain over the
\* plain classes, 0 for everything else
BadAreaCalculator_calculate_area(shape) ==
    IF shape.cls = "Rectangle"
    THEN Area(2 * shape.a * shape.b, 0, "int")
    ELSE IF shape.cls = "Circle"
    THEN Area(0, shape.a * shape.a, "float")
    ELSE Area(0, 0, "int")

\* BadAreaCalculator().calculate_area(shape)
bad_calculate_area(i) ==
    /\ aret' = [op |-> "bad_calculate_area", shape |-> i,
                outcome |-> "return",
                value |-> BadAreaCalculator_calculate_area(shapes[i])]
    /\ UNCHANGED <<shapes, notShapes>>

InitCalculators ==
    /\ script = "ocp"
    /\ IdleShapes
    /\ IdleRepo
    /\ IdleDriver
    /\ IdleDispatch
    /\ IdleRegistry
    /\ IdleReport

NextCalculators ==
    \/ \E cls \in ShapeClasses : \E a \in Dims : \E b \in SecondDims(cls) :
          new_shape(cls, a, b)
    \/ \E o \in PlainObjects : new_shape(o[1], o[2], o[3])
    \/ \E i \in 1..Len(shapes) :
          shapes[i].cls \in ShapeClasses /\ calculate_area(i)
    \/ \E i \in 1..Len(shapes) : bad_calculate_area(i)

SpecCalculators == InitCalculators /\ [][NextCalculators]_vars

\* C20: BadAreaCalculator agrees with GoodAreaCalculator where it has a
\* branch and returns 0 elsewhere: for a plain Rectangle it returns width *
\* height, what GoodAreaCalculator returns for the GoodRectangle of those
\* dimensions, for a plain Circle pi * radius^2, what GoodAreaCalculator
\* returns for that GoodCircle; for every other object (Triangle, Pentagon,
\* GoodRectangle, GoodCircle, an object of no shape class) it returns the
\* int 0 and does not raise.
C20_BadCalculator ==
    aret.op = "bad_calculate_area" =>
        LET shape == shapes[aret.shape]
        IN  /\ aret.outcome = "return"
            /\ shape.cls = "Rectangle" =>
                  /\ aret.value = Area(2 * shape.a * shape.b, 0, "int")
                  /\ aret.value = GoodAreaCalculator_calculate_area(
                        [cls |-> "GoodRectangle", a |-> shape.a, b |-> shape.b])
            /\ shape.cls = "Circle" =>
                  /\ aret.value = Area(0, shape.a * shape.a, "float")
                  /\ aret.value = GoodAreaCalculator_calculate_area(
                        [cls |-> "GoodCircle", a |-> shape.a, b |-> 0])
            /\ shape.cls \notin PlainClasses => aret.value = Area(0, 0, "int")

\* With a plain Rectangle of 2 by 3 in the heap, the bad calculator was
\* given a GoodRectangle of 2 by 3 and answered 0.
C20_Witness ==
    /\ Len(shapes) = 2
    /\ shapes[1] = [cls |-> "Rectangle", a |-> 2, b |-> 3]
    /\ shapes[2] = [cls |-> "GoodRectangle", a |-> 2, b |-> 3]
    /\ aret.op = "bad_calculate_area"
    /\ aret.shape = 2
    /\ aret.value = Area(0, 0, "int")
    /\ BadAreaCalculator_calculate_area(shapes[1])
          = GoodAreaCalculator_calculate_area(shapes[2])


(***************************************************************************)
(* Claims about PaymentService (checked under SpecDispatch).               *)
(***************************************************************************)
\* The prefix each processor gives its transaction ids.
TransactionPrefix(cls) ==
    CASE cls = "CreditCardProcessor"   -> "CC_"
      [] cls = "PayPalProcessor"       -> "PP_"
      [] cls = "BitcoinProcessor"      -> "BTC_"
      [] cls = "BankTransferProcessor" -> "BT_"

\* str is the decimal numeral of a number in 0..9999.
IsNumeral(str) ==
    /\ Len(str) \in 1..4
    /\ \A i \in 1..Len(str) :
          SubSeq(str, i, i) \in {"0", "1", "2", "3", "4", "5", "6", "7", "8", "9"}

MaxRuns == 2

LoggerClasses == {"ConsoleLogger", "FileLogger"}

\* ConsoleLogger() has no fields; FileLogger(filename) sets self.filename
\* and self.logs = [].
NewLogger(cls) ==
    IF cls = "FileLogger"
    THEN [cls |-> cls, filename |-> "app.log", logs |-> <<>>]
    ELSE [cls |-> cls]

\* ConsoleLogger.log: print(f"[CONSOLE {level}] {message}")
ConsoleLogger_log(self, level, message) ==
    [self |-> self, printed |-> "[CONSOLE " \o level \o "] " \o message]

\* FileLogger.log: log_entry = f"[FILE {level}] {message}";
\* self.logs.append(log_entry); print(log_entry)
FileLogger_log(self, level, message) ==
    LET log_entry == "[FILE " \o level \o "] " \o message
    IN  [self |-> [self EXCEPT !.logs = Append(@, log_entry)],
         printed |-> log_entry]

\* Logger.log, dispatched on the instance's class.
Logger_log(self, level, message) ==
    CASE self.cls = "ConsoleLogger" -> ConsoleLogger_log(self, level, message)
      [] self.cls = "FileLogger"    -> FileLogger_log(self, level, message)

\* The repositories an Application's DataService may hold: the source's
\* three, whose save returns True, and one written by the caller whose save
\* stores nothing and returns False.
InjectedRepositories ==
    { NewRepository(kind, CtorArg(kind)) : kind \in RepoKinds }
        \cup { NewRepository("Refusing", "") }

\* DataService.process_data(data), for a record that has an 'id':
\* success = self.repository.save(data); if success: load(data['id']);
\* return success.  One event per call made on the repository.
DataService_process_data(heap, r, data) ==
    LET success == heap[r].kind # "Refusing"
        saved   == IF success THEN Repository_save(heap, r, data) ELSE heap
    IN  [heap   |-> saved,
         events |-> << [ev |-> "save", data |-> data, ret |-> success] >>
                    \o (IF success
                        THEN << [ev |-> "load", id |-> data["id"],
                                 ret |-> Repository_load(saved[r], data["id"])] >>
                        ELSE <<>>),
         value  |-> success]

\* NotificationService.send_notification(message, recipient), as one event.
NotificationService_send_notification(self, message, recipient) ==
    [ev |-> "send_notification", message |-> message, recipient |-> recipient,
     ret |-> MessageSender_send_message(self.message_sender, message,
                                        recipient).ret]

\* self.logger.log(level, message), as one event.
LogEvent(logger, level, message) ==
    [ev |-> "log", level |-> level, message |-> message,
     printed |-> Logger_log(logger, level, message).printed]

\* user_data in Application.run
user_data ==
    [id |-> "user_001", name |-> "Ana García", email |-> "ana@ejemplo.com"]

\* Mutant of Application.run: the notification is sent before the outcome
\* of process_data is looked at, whatever it was.
Application_run_notifying(app, heap) ==
    LET l1        == Logger_log(app.logger, "INFO", "Aplicación iniciada").self
        processed == DataService_process_data(heap, app.data_service.repository,
                                              user_data)
        success   == processed.value
        l2        == IF success
                     THEN Logger_log(l1, "INFO",
                                     "Datos procesados exitosamente").self
                     ELSE Logger_log(l1, "ERROR", "Error al procesar datos").self
        l3        == Logger_log(l2, "INFO", "Aplicación finalizada").self
    IN  [logger  |-> l3,
         heap    |-> processed.heap,
         success |-> success,
         events  |->
            << LogEvent(app.logger, "INFO", "Aplicación iniciada") >>
            \o processed.events
            \o << NotificationService_send_notification(
                     app.notification_service,
                     "Tu cuenta ha sido creada exitosamente",
                     user_data["email"]) >>
            \o (IF success
                THEN << LogEvent(l1, "INFO", "Datos procesados exitosamente") >>
                ELSE << LogEvent(l1, "ERROR", "Error al procesar datos") >>)
            \o << LogEvent(l2, "INFO", "Aplicación finalizada") >>]

\* Application.run: what one call does to the logger and the repository,
\* the value process_data returned, and the calls made, in order.
Application_run(app, heap) ==
    LET l1        == Logger_log(app.logger, "INFO", "Aplicación iniciada").self
        processed == DataService_process_data(heap, app.data_service.repository,
                                              user_data)
        success   == processed.value
        l2        == IF success
                     THEN Logger_log(l1, "INFO",
                                     "Datos procesados exitosamente").self
                     ELSE Logger_log(l1, "ERROR", "Error al procesar datos").self
        l3        == Logger_log(l2, "INFO", "Aplicación finalizada").self
    IN  [logger  |-> l3,
         heap    |-> processed.heap,
         success |-> success,
         events  |->
            << LogEvent(app.logger, "INFO", "Aplicación iniciada") >>
            \o processed.events
            \o (IF success
                THEN << LogEvent(l1, "INFO", "Datos procesados exitosamente"),
                        NotificationService_send_notification(
                           app.notification_service,
                           "Tu cuenta ha sido creada exitosamente",
                           user_data["email"]) >>
                ELSE << LogEvent(l1, "ERROR", "Error al procesar datos") >>)
            \o << LogEvent(l2, "INFO", "Aplicación finalizada") >>]

\* Application(logger, data_service, notification_service): main builds the
\* logger, the repository and the sender and injects them.
new_application(loggerCls, repository, sender) ==
    /\ driver = NoCall
    /\ driver' = [op |-> "Application",
                  app |-> [logger |-> NewLogger(loggerCls),
                           data_service |-> [repository |-> 1],
                           notification_service |-> [message_sender |-> sender]],
                  runs |-> 0]
    /\ repos' = << repository >>
    /\ log' = <<>>
    /\ UNCHANGED <<script, dataServices, dret, dispatchVars, registryVars,
                   shapeVars, reportVars>>

\* app.run(): log holds the calls of this run, driver the application after
\* it together with the logger as it was before and the value process_data
\* returned.
run ==
    /\ driver # NoCall
    /\ driver.op = "Application"
    /\ driver.runs < MaxRuns
    /\ LET done == Application_run(driver.app, repos)
       IN  /\ driver' = [op |-> "Application",
                         app |-> [driver.app EXCEPT !.logger = done.logger],
                         runs |-> driver.runs + 1,
                         before |-> driver.app.logger,
                         success |-> done.success]
           /\ repos' = done.heap
           /\ log' = done.events
    /\ UNCHANGED <<script, dataServices, dret, dispatchVars, registryVars,
                   shapeVars, reportVars>>

InitApplication ==
    /\ script = "dip"
    /\ IdleDispatch
    /\ IdleRepo
    /\ IdleDriver
    /\ IdleRegistry
    /\ IdleShapes
    /\ IdleReport

NextApplication ==
    \/ \E loggerCls \in LoggerClasses : \E repository \in InjectedRepositories :
          \E sender \in InjectedSenders :
             new_application(loggerCls, repository, sender)
    \/ run

SpecApplication == InitApplication /\ [][NextApplication]_vars

\* Where in the events of a run the events of a kind are.
IsLog(e, level, message) ==
    e.ev = "log" /\ e.level = level /\ e.message = message

LogPositions(events, level, message) ==
    { i \in 1..Len(events) : IsLog(events[i], level, message) }

EventPositions(events, ev) == { i \in 1..Len(events) : events[i].ev = ev }

\* C22: in every run the 'Aplicación iniciada' log is the first event and
\* the 'Aplicación finalizada' log the last; the notification is sent
\* exactly when process_data returned success, after the save and after the
\* 'Datos procesados exitosamente' log; the ERROR log is emitted exactly
\* when process_data returned failure; a FileLogger's logs list gains
\* exactly the run's three entries, in that order.
C22_RunOrder ==
    (driver # NoCall /\ driver.op = "Application" /\ driver.runs > 0) =>
        LET sent      == EventPositions(log, "send_notification")
            saves     == EventPositions(log, "save")
            started   == LogPositions(log, "INFO", "Aplicación iniciada")
            finished  == LogPositions(log, "INFO", "Aplicación finalizada")
            processed == LogPositions(log, "INFO",
                                      "Datos procesados exitosamente")
            errors    == LogPositions(log, "ERROR", "Error al procesar datos")
            logger    == driver.app.logger
        IN  /\ started = {1}
            /\ finished = {Len(log)}
            /\ Len(log) > 1
            /\ Cardinality(saves) = 1
            /\ Cardinality(sent) = (IF driver.success THEN 1 ELSE 0)
            /\ Cardinality(processed) = (IF driver.success THEN 1 ELSE 0)
            /\ Cardinality(errors) = (IF driver.success THEN 0 ELSE 1)
            /\ \A i \in sent :
                  /\ \E j \in saves : j < i /\ log[j].ret
                  /\ \E k \in processed : k < i
                  /\ log[i].recipient = "ana@ejemplo.com"
            /\ Cardinality(EventPositions(log, "log")) = 3
            /\ logger.cls = "FileLogger" =>
                  logger.logs = driver.before.logs \o
                     << "[FILE INFO] Aplicación iniciada",
                        IF driver.success
                        THEN "[FILE INFO] Datos procesados exitosamente"
                        ELSE "[FILE ERROR] Error al procesar datos",
                        "[FILE INFO] Aplicación finalizada" >>

\* A second run of an Application with a FileLogger and a FileRepository:
\* the record is stored, the notification follows the 'Datos procesados
\* exitosamente' log, and logs holds six entries.
C22_Witness ==
    /\ driver # NoCall
    /\ driver.op = "Application"
    /\ driver.runs = 2
    /\ driver.success
    /\ driver.app.logger.cls = "FileLogger"
    /\ Len(driver.app.logger.logs) = 6
    /\ repos[1].kind = "File"
    /\ DOMAIN repos[1].store = {"/data/files/user_001.json"}
    /\ Len(log) = 6
    /\ IsLog(log[4], "INFO", "Datos procesados exitosamente")
    /\ log[5].ev = "send_notification"

\* A second run of an Application with a FileLogger and a refusing
\* repository: no notification, the ERROR log, six entries in logs.
C22_WitnessFailure ==
    /\ driver # NoCall
    /\ driver.op = "Application"
    /\ driver.runs = 2
    /\ driver.app.logger.cls = "FileLogger"
    /\ ~driver.success
    /\ Len(driver.app.logger.logs) = 6
    /\ driver.app.logger.logs[5] = "[FILE ERROR] Error al procesar datos"
    /\ EventPositions(log, "send_notification") = {}
    /\ Len(log) = 4


(***************************************************************************)
(* dip_example.py: DataService.process_data with records that have no      *)
(* 'id' field.                                                             *)
(***************************************************************************)
\* Two records without 'id' and one with it.
IdlessRecords == { [name |-> "NoId"], [name |-> "Other", price |-> "10"] }

ProcessedRecords == IdlessRecords \cup { [id |-> "p1", name |-> "Laptop"] }

\* The key a repository's dict holds an id under: the id itself, or the
\* file name FileRepository builds from it.
StoreKey(self, id) ==
    IF self.kind = "File" THEN FileName(self.arg, id) ELSE id

InitIdless ==
    /\ script = "dip"
    /\ IdleRepo
    /\ IdleDriver
    /\ IdleDispatch
    /\ IdleRegistry
    /\ IdleShapes
    /\ IdleReport

NextIdless ==
    \/ \E kind \in RepoKinds : create_data_service(kind)
    \/ \E s \in 1..Len(dataServices), data \in ProcessedRecords :
          process_data(s, data)
    \/ \E s \in 1..Len(dataServices), id \in {"unknown", "p1"} :
          cleanup_data(s, id)
    \/ \E r \in 1..Len(repos), id \in {"unknown", "p1"} : load(r, id)

SpecIdless == InitIdless /\ [][NextIdless]_vars

\* C23: process_data with a record that has no 'id' ends in KeyError, yet
\* the save before it went through: the record is what the repository now
\* holds for the id 'unknown' (load('unknown') returns it, a store that did
\* not hold it has changed), and every id-less record of a repository sits
\* under that one key, so that a second one replaces the first.
C23_IdlessSavedThenKeyError ==
    /\ [](\A r \in 1..Len(repos) : \A k \in DOMAIN repos[r].store :
             "id" \notin DOMAIN repos[r].store[k]
                => k = StoreKey(repos[r], "unknown"))
    /\ []((dret.op = "process_data" /\ "id" \notin DOMAIN dret.data) =>
             /\ dret.outcome = "KeyError"
             /\ StoreKey(repos[dret.repo], "unknown")
                   \in DOMAIN repos[dret.repo].store
             /\ Repository_load(repos[dret.repo], "unknown") = dret.data)
    /\ [][ (/\ dret'.op = "process_data"
            /\ "id" \notin DOMAIN dret'.data
            /\ dret' # dret
            /\ \/ StoreKey(repos[dret'.repo], "unknown")
                     \notin DOMAIN repos[dret'.repo].store
               \/ Repository_load(repos[dret'.repo], "unknown") # dret'.data)
           => /\ repos'[dret'.repo] # repos[dret'.repo]
              /\ repos'[dret'.repo].store =
                   DictSet(repos[dret'.repo].store,
                           StoreKey(repos[dret'.repo], "unknown"), dret'.data)
         ]_vars

\* process_data was called on a DatabaseRepository with an id-less record:
\* KeyError, and 'unknown' is the only key and holds that record.
C23_Witness ==
    /\ dret.op = "process_data"
    /\ dret.outcome = "KeyError"
    /\ dret.data = [name |-> "Other", price |-> "10"]
    /\ repos[dret.repo].kind = "Database"
    /\ DOMAIN repos[dret.repo].store = {"unknown"}
    /\ repos[dret.repo].store["unknown"] = dret.data

====
